---------------------------- MODULE Spec2Model ----------------------------
(***************************************************************************)
(* A model of src/src/Generator.cpp (Halide's generator driver):           *)
(*   - GeneratorRegistry (register_factory, unregister_factory, create,    *)
(*     enumerate), sequentially (Spec) and with threads (SpecConc);        *)
(*   - GeneratorBase parameter discovery and configuration (SpecGen);      *)
(*   - generate_filter_main, the command line driver (SpecMain);          *)
(*   - a factory that calls back into the registry (SpecReent);            *)
(*   - threads with finite programs under a fair scheduler (SpecFinite);   *)
(*   - is_valid_name and compute_outputs called on their own (SpecName,    *)
(*     SpecOutputs).                                                       *)
(* Strings are sequences of ASCII codes, so that character tests, string   *)
(* order, splitting and concatenation are computed as the code computes    *)
(* them.                                                                   *)
(***************************************************************************)
EXTENDS Integers, Sequences, FiniteSets, TLC

VARIABLES
    \* ---- GeneratorRegistry (Generator.cpp:316-361)
    factories,       \* registry.factories: std::map name -> factory
    reg_last,        \* the last registry call made and what it returned
    dupSeen,         \* history: name -> factory that was registered when a duplicate registration of name failed
    names_abs,       \* history: the abstract name set (successful registers minus successful unregisters)
    \* ---- the registry under threads
    mutex,           \* registry.mutex: 0 when free, else the thread that holds it
    pc,              \* per thread: position inside its registry call
    call,            \* per thread: the call in progress
    loc,             \* per thread: the call's locals (find result, iterator, result vector)
    seenSets,        \* history, per thread: the key sets the map has had since the call began
    lin,             \* history: the map of the sequential run that takes each call when it takes the mutex
    calls_left,      \* per thread: the calls its program still has to make, where the program is finite
    \* ---- one GeneratorBase instance (Generator.cpp:363-485)
    objs,            \* the Parameter / GeneratorInputBase / GeneratorParamBase objects inside the instance
    filter_params,   \* std::vector<Parameter *>
    filter_inputs,   \* std::vector<GeneratorInputBase *>
    generator_params,\* std::map<std::string, GeneratorParamBase *>
    params_built,    \* bool
    gen_last,        \* the last GeneratorBase call made and what it returned
    everReturned,    \* history: some call has returned an Argument list or a Module
    cycle_start,     \* history: per Input, the init_internals() calls made on it before the latest scan
    \* ---- generate_filter_main (Generator.cpp:134-307)
    argv,            \* the command line, argv[1..argc-1]
    main_pc,         \* position of the run
    m,               \* the locals of generate_filter_main
    trace,           \* the calls the run has made to its collaborators, in order
    \* ---- one call of a free function (is_valid_name, compute_outputs, the -e handling)
    fn_args,         \* the function called and its arguments
    fn_result        \* whether it has returned, and what

reg_vars  == <<factories, reg_last, dupSeen, names_abs>>
conc_vars == <<mutex, pc, call, loc, seenSets, lin, calls_left>>
gen_vars  == <<objs, filter_params, filter_inputs, generator_params, params_built,
               gen_last, everReturned, cycle_start>>
main_vars == <<argv, main_pc, m, trace>>
fn_vars   == <<fn_args, fn_result>>
vars == <<factories, reg_last, dupSeen, names_abs, mutex, pc, call, loc, seenSets, lin,
          calls_left,
          objs, filter_params, filter_inputs, generator_params, params_built,
          gen_last, everReturned, cycle_start, argv, main_pc, m, trace, fn_args, fn_result>>

-----------------------------------------------------------------------------
(* Strings *)

S_empty  == <<>>                                   \* ""
S_a      == <<97>>                                 \* "a"
S_ab     == <<97, 98>>                             \* "ab"
S_b      == <<98>>                                 \* "b"
S_9a     == <<57, 97>>                             \* "9a"
S_a__b   == <<97, 95, 95, 98>>                     \* "a__b"
S_target == <<116, 97, 114, 103, 101, 116>>        \* "target"
S_width  == <<119, 105, 100, 116, 104>>            \* "width"
S_42     == <<52, 50>>                             \* "42"
S_1      == <<49>>                                 \* "1"
S_01     == <<48, 49>>                             \* "01"
S_c      == <<99>>                                 \* "c"
S_d      == <<100>>                                \* "d"
S_p0     == <<112, 48>>                            \* "p0"
S_zz == <<122, 122>>   \* "zz"
S_host == <<104, 111, 115, 116>>   \* "host"
S_x86 == <<120, 56, 54>>   \* "x86"
S_64 == <<54, 52>>   \* "64"
S_32 == <<51, 50>>   \* "32"
S_linux == <<108, 105, 110, 117, 120>>   \* "linux"
S_windows == <<119, 105, 110, 100, 111, 119, 115>>   \* "windows"
S_mingw == <<109, 105, 110, 103, 119>>   \* "mingw"
S_pnacl == <<112, 110, 97, 99, 108>>   \* "pnacl"
S_nacl == <<110, 97, 99, 108>>   \* "nacl"
F_f == <<45, 102>>   \* "-f"
F_g == <<45, 103>>   \* "-g"
F_o == <<45, 111>>   \* "-o"
F_e == <<45, 101>>   \* "-e"
F_n == <<45, 110>>   \* "-n"
F_x == <<45, 120>>   \* "-x"
F_r == <<45, 114>>   \* "-r"
F_z == <<45, 122>>   \* "-z"
S_dir == <<47, 100>>   \* "/d"
S_rt == <<114, 116>>   \* "rt"
S_ns_f == <<110, 115, 58, 58, 102>>   \* "ns::f"
S_nm == <<110, 109>>   \* "nm"
S_junk == <<106, 117, 110, 107>>   \* "junk"
S_eq == <<61>>   \* "="
S_comma == <<44>>   \* ","
S_colons == <<58, 58>>   \* "::"
S_slash == <<47>>   \* "/"
S_dash == <<45>>   \* "-"
E_assembly == <<97, 115, 115, 101, 109, 98, 108, 121>>   \* "assembly"
E_bitcode == <<98, 105, 116, 99, 111, 100, 101>>   \* "bitcode"
E_stmt == <<115, 116, 109, 116>>   \* "stmt"
E_html == <<104, 116, 109, 108>>   \* "html"
E_cpp == <<99, 112, 112>>   \* "cpp"
E_o == <<111>>   \* "o"
E_h == <<104>>   \* "h"
E_static_library == <<115, 116, 97, 116, 105, 99, 95, 108, 105, 98, 114, 97, 114, 121>>   \* "static_library"
E_bogus == <<98, 111, 103, 117, 115>>   \* "bogus"
X_bc == <<46, 98, 99>>   \* ".bc"
X_obj == <<46, 111, 98, 106>>   \* ".obj"
X_o == <<46, 111>>   \* ".o"
X_s == <<46, 115>>   \* ".s"
X_h == <<46, 104>>   \* ".h"
X_cpp == <<46, 99, 112, 112>>   \* ".cpp"
X_stmt == <<46, 115, 116, 109, 116>>   \* ".stmt"
X_html == <<46, 104, 116, 109, 108>>   \* ".html"
X_lib == <<46, 108, 105, 98>>   \* ".lib"
X_a == <<46, 97>>   \* ".a"
X_obj2 == <<46, 111, 98, 106, 50>>   \* ".obj2"
S_win_target == <<120, 56, 54, 45, 54, 52, 45, 119, 105, 110, 100, 111, 119, 115>>   \* "x86-64-windows"
S_mingw_target == <<120, 56, 54, 45, 54, 52, 45, 119, 105, 110, 100, 111, 119, 115, 45, 109, 105, 110, 103, 119>>   \* "x86-64-windows-mingw"
S_linux_target == <<120, 56, 54, 45, 54, 52, 45, 108, 105, 110, 117, 120>>   \* "x86-64-linux"

Min(a, b) == IF a <= b THEN a ELSE b

\* std::string operator< : lexicographic on the characters, a proper prefix first
StrLess(a, b) ==
    \E i \in 1..(Min(Len(a), Len(b)) + 1) :
        /\ \A j \in 1..(i - 1) : a[j] = b[j]
        /\ \/ i > Len(a) /\ i <= Len(b)
           \/ i <= Len(a) /\ i <= Len(b) /\ a[i] < b[i]

\* the least string of a non-empty set: std::map's begin()
StrMin(S) == CHOOSE x \in S : \A y \in S : y = x \/ StrLess(x, y)

\* the elements of S in std::map iteration order
RECURSIVE SortedKeys(_)
SortedKeys(S) ==
    IF S = {} THEN <<>>
    ELSE LET x == StrMin(S) IN <<x>> \o SortedKeys(S \ {x})

Range(s) == {s[i] : i \in DOMAIN s}

-----------------------------------------------------------------------------
(* is_valid_name, Generator.cpp:13-30 *)

is_alpha(c) == (c >= 65 /\ c <= 90) \/ (c >= 97 /\ c <= 122)

is_alnum(c) == is_alpha(c) \/ (c = 95) \/ (c >= 48 /\ c <= 57)

is_valid_name_allows_double_underscore(n) ==
    IF Len(n) = 0 THEN FALSE
    ELSE IF ~is_alpha(n[1]) THEN FALSE
    ELSE \A i \in 2..Len(n) : is_alnum(n[i])

is_valid_name(n) ==
    IF Len(n) = 0 THEN FALSE
    ELSE IF ~is_alpha(n[1]) THEN FALSE
    ELSE \A i \in 2..Len(n) :
            /\ is_alnum(n[i])
            /\ ~(n[i] = 95 /\ n[i - 1] = 95)

-----------------------------------------------------------------------------
(* GeneratorRegistry, Generator.cpp:316-361 *)

\* names the callers pass: three valid ones and three invalid ones
NamePool == {S_a, S_ab, S_b, S_empty, S_9a, S_a__b}

\* the factories callers hand to register_factory
FactoryPool == {"f1", "f2"}

\* GeneratorParamValues handed to create
ConfigPool == {<<>>, [k \in {S_width} |-> S_42]}

NoFactory == "none"
NoInst == [factory |-> NoFactory, params |-> <<>>, null |-> TRUE]

\* GeneratorFactory::create(params): a new instance, remembering who made it
\* and with what; the factory "fnull" returns nullptr
FactoryCreate(f, params) == [factory |-> f, params |-> params, null |-> (f = "fnull")]

\* registry.factories[name] = std::move(factory)
MapPut(fs, name, f) == [n \in (DOMAIN fs) \cup {name} |-> IF n = name THEN f ELSE fs[n]]

\* registry.factories.erase(name)
MapErase(fs, name) == [n \in (DOMAIN fs) \ {name} |-> fs[n]]

NoDup == [first |-> NoFactory, rejected |-> NoFactory]

\* what a caller sees of a registry call; `before` is the key set when it was made
RegLast(op, name, fac, res, inst, list, before) ==
    [op |-> op, name |-> name, fac |-> fac, res |-> res, inst |-> inst,
     list |-> list, before |-> before]

register_factory_keeps_first(fs, name, factory) ==
    IF ~is_valid_name(name) THEN [res |-> "user_error", fs |-> fs]
    ELSE [res |-> "ok", fs |-> MapPut(fs, name, factory)]

\* the outcome of register_factory on map fs: the result and the map afterwards
register_factory_body(fs, name, factory) ==
    IF ~is_valid_name(name) THEN [res |-> "user_error", fs |-> fs]
    ELSE IF name \in DOMAIN fs THEN [res |-> "internal_error", fs |-> fs]
    ELSE [res |-> "ok", fs |-> MapPut(fs, name, factory)]

unregister_factory_no_erase(fs, name) ==
    IF name \notin DOMAIN fs THEN [res |-> "internal_error", fs |-> fs]
    ELSE [res |-> "ok", fs |-> fs]

unregister_factory_body(fs, name) ==
    IF name \notin DOMAIN fs THEN [res |-> "internal_error", fs |-> fs]
    ELSE [res |-> "ok", fs |-> MapErase(fs, name)]

create_body(fs, name, params) ==
    IF name \notin DOMAIN fs THEN [res |-> "user_error", inst |-> NoInst]
    ELSE [res |-> "ok", inst |-> FactoryCreate(fs[name], params)]

enumerate_body(fs) == SortedKeys(DOMAIN fs)

register_factory(name, factory) ==
    LET r == register_factory_body(factories, name, factory) IN
    /\ factories' = r.fs
    /\ reg_last' = RegLast("register_factory", name, factory, r.res, NoInst, <<>>,
                           DOMAIN factories)
    /\ dupSeen' = IF r.res = "internal_error"
                  THEN [dupSeen EXCEPT ![name] = [first |-> factories[name], rejected |-> factory]]
                  ELSE dupSeen
    /\ names_abs' = IF r.res = "ok" THEN names_abs \cup {name} ELSE names_abs
    /\ UNCHANGED <<conc_vars, gen_vars, main_vars, fn_vars>>

unregister_factory(name) ==
    LET r == unregister_factory_body(factories, name) IN
    /\ factories' = r.fs
    /\ reg_last' = RegLast("unregister_factory", name, NoFactory, r.res, NoInst, <<>>,
                           DOMAIN factories)
    /\ dupSeen' = IF r.res = "ok" THEN [dupSeen EXCEPT ![name] = NoDup] ELSE dupSeen
    /\ names_abs' = IF r.res = "ok" THEN names_abs \ {name} ELSE names_abs
    /\ UNCHANGED <<conc_vars, gen_vars, main_vars, fn_vars>>

create(name, params) ==
    LET r == create_body(factories, name, params) IN
    /\ reg_last' = RegLast("create", name, NoFactory, r.res, r.inst, <<>>,
                           DOMAIN factories)
    /\ UNCHANGED <<factories, dupSeen, names_abs, conc_vars, gen_vars, main_vars, fn_vars>>

enumerate ==
    /\ reg_last' = RegLast("enumerate", S_empty, NoFactory, "ok", NoInst,
                           enumerate_body(factories), DOMAIN factories)
    /\ UNCHANGED <<factories, dupSeen, names_abs, conc_vars, gen_vars, main_vars, fn_vars>>

-----------------------------------------------------------------------------
(* GeneratorRegistry under threads: the same four functions, one step per   *)
(* map access, each between the std::lock_guard's construction and its      *)
(* destruction.                                                             *)

NumThreads == 2
Threads == 1..NumThreads

\* the most calls the program of one thread makes, where it is finite
MaxCalls == 2

\* the names and factories the threads use
ConcNames == {S_a, S_b, S_9a}
ConcConfig == <<>>

NoCall == [op |-> "none", name |-> S_empty, fac |-> NoFactory]
NoLoc == [res |-> "none", inst |-> NoInst, result |-> <<>>, relock |-> "none",
          x_res |-> "none", x_inst |-> NoInst, x_list |-> <<>>]

\* a factory whose create() itself calls a function of the registry
ReentrantFactory == "fcb"

\* thread t is in create, about to call a factory that calls the registry
Reentrant(t) ==
    /\ call[t].op = "create"
    /\ call[t].name \in DOMAIN factories
    /\ factories[call[t].name] = ReentrantFactory

mutex_free_always(mu) == TRUE

unlock_on_success_only(mu, res) == IF res = "ok" THEN 0 ELSE mu

\* ~lock_guard(): the mutex is released however the scope is left, by return
\* or by a failed assertion
lock_guard_destructor(mu, res) == 0

\* std::lock_guard<std::mutex> lock(registry.mutex) returns only once the mutex is free
mutex_free(mu) == mu = 0

\* what the sequential run answers to call c on map fs: the result, the instance,
\* the list, and the map afterwards
SeqAnswer(fs, c) ==
    CASE c.op = "register_factory" ->
            LET r == register_factory_body(fs, c.name, c.fac) IN
            [res |-> r.res, inst |-> NoInst, list |-> <<>>, fs |-> r.fs]
      [] c.op = "unregister_factory" ->
            LET r == unregister_factory_body(fs, c.name) IN
            [res |-> r.res, inst |-> NoInst, list |-> <<>>, fs |-> r.fs]
      [] c.op = "create" ->
            LET r == create_body(fs, c.name, ConcConfig) IN
            [res |-> r.res, inst |-> r.inst, list |-> <<>>, fs |-> fs]
      [] OTHER ->
            [res |-> "ok", inst |-> NoInst, list |-> enumerate_body(fs), fs |-> fs]

\* every enumerate call in progress sees the key set the map now has
Observe(fs) ==
    [u \in Threads |->
        IF call[u].op = "enumerate" THEN seenSets[u] \cup {DOMAIN fs} ELSE seenSets[u]]

\* a thread calls one of the four functions; register_factory tests the name
\* before it touches the registry (line 325)
c_call_step(t, op, name, fac) ==
    /\ pc[t] = "idle"
    /\ call' = [call EXCEPT ![t] = [op |-> op, name |-> name, fac |-> fac]]
    /\ seenSets' = [seenSets EXCEPT ![t] = IF op = "enumerate" THEN {DOMAIN factories} ELSE {}]
    /\ IF op = "register_factory" /\ ~is_valid_name(name)
       THEN /\ loc' = [loc EXCEPT ![t].res = "user_error", ![t].x_res = "user_error"]
            /\ pc' = [pc EXCEPT ![t] = "raise"]
       ELSE /\ loc' = loc
            /\ pc' = [pc EXCEPT ![t] = "lock"]
    /\ UNCHANGED <<mutex, lin, reg_vars, gen_vars, main_vars, fn_vars>>

\* the call, made by a thread whose program is not bounded
c_call(t, op, name, fac) ==
    /\ c_call_step(t, op, name, fac)
    /\ UNCHANGED calls_left

\* the call, made by a thread whose program is a finite sequence of calls
c_call_finite(t, op, name, fac) ==
    /\ calls_left[t] > 0
    /\ c_call_step(t, op, name, fac)
    /\ calls_left' = [calls_left EXCEPT ![t] = @ - 1]

\* the lock_guard's constructor (lines 327, 336, 346, 355)
c_lock(t) ==
    /\ pc[t] = "lock"
    /\ mutex_free(mutex)
    /\ mutex' = t
    /\ LET a == SeqAnswer(lin, call[t]) IN
       /\ lin' = a.fs
       /\ loc' = [loc EXCEPT ![t].x_res = a.res, ![t].x_inst = a.inst, ![t].x_list = a.list]
    /\ pc' = [pc EXCEPT ![t] = IF call[t].op = "enumerate" THEN "iter" ELSE "find"]
    /\ UNCHANGED <<calls_left, call, seenSets, reg_vars, gen_vars, main_vars, fn_vars>>

\* registry.factories.find(name) and the assertion on it (lines 328, 337, 347-348);
\* a failed assertion leaves through the lock_guard's destructor
c_find(t) ==
    /\ pc[t] = "find"
    /\ LET found == call[t].name \in DOMAIN factories
           fails == CASE call[t].op = "register_factory" -> found
                      [] OTHER -> ~found
           err == IF call[t].op = "create" THEN "user_error" ELSE "internal_error"
       IN IF fails
          THEN /\ loc' = [loc EXCEPT ![t].res = err]
               /\ pc' = [pc EXCEPT ![t] = "unlock"]
          ELSE /\ loc' = loc
               /\ pc' = [pc EXCEPT ![t] = "act"]
    /\ UNCHANGED <<calls_left, mutex, call, seenSets, lin, reg_vars, gen_vars, main_vars, fn_vars>>

\* the map update or the factory call that follows a passed assertion
\* (lines 330, 339, 349). create still holds the iterator find returned: were
\* the entry erased meanwhile, the iterator would dangle and any factory, or
\* none, could be reached.
c_act(t) ==
    /\ pc[t] = "act"
    /\ ~Reentrant(t)
    /\ CASE call[t].op = "register_factory" ->
              /\ factories' = MapPut(factories, call[t].name, call[t].fac)
              /\ loc' = [loc EXCEPT ![t].res = "ok"]
         [] call[t].op = "unregister_factory" ->
              /\ factories' = MapErase(factories, call[t].name)
              /\ loc' = [loc EXCEPT ![t].res = "ok"]
         [] OTHER ->
              /\ factories' = factories
              /\ IF call[t].name \in DOMAIN factories
                 THEN loc' = [loc EXCEPT ![t].res = "ok",
                                         ![t].inst = FactoryCreate(factories[call[t].name], ConcConfig)]
                 ELSE \E f \in FactoryPool \cup {NoFactory} :
                        loc' = [loc EXCEPT ![t].res = "ok",
                                           ![t].inst = FactoryCreate(f, ConcConfig)]
    /\ seenSets' = Observe(factories')
    /\ pc' = [pc EXCEPT ![t] = "unlock"]
    /\ UNCHANGED <<calls_left, mutex, call, lin, reg_last, dupSeen, names_abs, gen_vars, main_vars, fn_vars>>

\* create calls a factory (line 349) that calls a function of the registry: the
\* inner std::lock_guard locks the std::mutex its own thread already holds.
\* That is undefined behaviour; the builds either block in lock() for ever or
\* have lock() throw std::system_error (resource_deadlock_would_occur).
c_relock(t) ==
    /\ pc[t] = "act"
    /\ Reentrant(t)
    /\ \E outcome \in {"blocked", "relock_failed"} :
          /\ pc' = [pc EXCEPT ![t] = outcome]
          /\ loc' = [loc EXCEPT ![t].relock = outcome]
    /\ UNCHANGED <<calls_left, mutex, call, seenSets, lin, reg_vars, gen_vars, main_vars, fn_vars>>

\* lock() threw inside the factory: the factory handles the exception and
\* returns an instance all the same, or lets it leave create through the outer
\* lock_guard's destructor
c_relock_failed(t) ==
    /\ pc[t] = "relock_failed"
    /\ \/ loc' = [loc EXCEPT ![t].res = "ok",
                              ![t].inst = FactoryCreate(ReentrantFactory, ConcConfig)]
       \/ loc' = [loc EXCEPT ![t].res = "system_error"]
    /\ pc' = [pc EXCEPT ![t] = "unlock"]
    /\ UNCHANGED <<calls_left, mutex, call, seenSets, lin, reg_vars, gen_vars, main_vars, fn_vars>>

\* one round of enumerate's loop (lines 357-359): the iterator moves to the
\* least key after the one pushed last, or the loop ends
c_iter(t) ==
    /\ pc[t] = "iter"
    /\ LET done == loc[t].result
           rest == {k \in DOMAIN factories :
                       done = <<>> \/ StrLess(done[Len(done)], k)}
       IN IF rest = {}
          THEN /\ loc' = [loc EXCEPT ![t].res = "ok"]
               /\ pc' = [pc EXCEPT ![t] = "unlock"]
          ELSE /\ loc' = [loc EXCEPT ![t].result = Append(done, StrMin(rest))]
               /\ pc' = pc
    /\ UNCHANGED <<calls_left, mutex, call, seenSets, lin, reg_vars, gen_vars, main_vars, fn_vars>>

\* the lock_guard's destructor, on return and on a failed assertion alike;
\* the call is over and its locals are gone
c_unlock(t) ==
    /\ pc[t] = "unlock"
    /\ mutex' = lock_guard_destructor(mutex, loc[t].res)
    /\ pc' = [pc EXCEPT ![t] = "idle"]
    /\ call' = [call EXCEPT ![t] = NoCall]
    /\ loc' = [loc EXCEPT ![t] = NoLoc]
    /\ seenSets' = [seenSets EXCEPT ![t] = {}]
    /\ UNCHANGED <<calls_left, lin, reg_vars, gen_vars, main_vars, fn_vars>>

\* register_factory's user_assert on the name failed (line 325): the call is
\* over before the registry was touched
c_raise(t) ==
    /\ pc[t] = "raise"
    /\ pc' = [pc EXCEPT ![t] = "idle"]
    /\ call' = [call EXCEPT ![t] = NoCall]
    /\ loc' = [loc EXCEPT ![t] = NoLoc]
    /\ UNCHANGED <<calls_left, mutex, seenSets, lin, reg_vars, gen_vars, main_vars, fn_vars>>

-----------------------------------------------------------------------------
(* GeneratorBase, Generator.cpp:363-485.  The instance's state is the record *)
(* g = [objs, fp, fi, gp, built]: the objects declared inside the instance   *)
(* (free Params, Inputs, GeneratorParams, in address order) and the members  *)
(* filter_params, filter_inputs, generator_params, params_built.  The three  *)
(* collections hold pointers: here, indices into objs.                       *)

\* the most objects (Params, Inputs and GeneratorParams together) an instance declares
MaxDecl == 3
\* the most init_internals() calls on one Input that are followed
MaxInits == 2

\* free parameters (Param<> / ImageParam) a generator may declare
ParamPool == {[name |-> S_a, explicit |-> TRUE, is_buffer |-> FALSE],
              [name |-> S_b, explicit |-> TRUE, is_buffer |-> TRUE],
              [name |-> S_a__b, explicit |-> TRUE, is_buffer |-> FALSE],
              [name |-> S_p0, explicit |-> FALSE, is_buffer |-> FALSE]}

\* Inputs a generator may declare, as constructed (lines 495-499): not yet
\* initialised; inits counts the init_internals() calls made on the input
InputPool == {[name |-> S_a, is_buffer |-> TRUE, bound |-> "none", inits |-> 0],
              [name |-> S_c, is_buffer |-> FALSE, bound |-> "none", inits |-> 0],
              [name |-> S_9a, is_buffer |-> FALSE, bound |-> "none", inits |-> 0]}

\* GeneratorParam<int>s a generator may declare, with their default value
GParamPool == {[name |-> S_b, value |-> 0],
               [name |-> S_d, value |-> 0],
               [name |-> S_9a, value |-> 0]}

SeqsUpTo(S, n) == UNION {[1..k -> S] : k \in 0..n}

\* what a generator may declare: at most MaxDecl objects
DeclPool ==
    {o \in [params : SeqsUpTo(ParamPool, MaxDecl),
            inputs : SeqsUpTo(InputPool, MaxDecl),
            gparams : SeqsUpTo(GParamPool, MaxDecl)] :
        Len(o.params) + Len(o.inputs) + Len(o.gparams) <= MaxDecl}

\* the GeneratorParamValues callers pass to set_generator_param_values: "c"
\* names no GeneratorParam of the pool, "b" sorts before it and "d" after it
ValuesPool == {[k \in K |-> IF k = S_b THEN S_42 ELSE v] :
                  K \in SUBSET {S_b, S_c, S_d}, v \in {S_1, S_01}}

Ok == [kind |-> "ok", msg |-> "", who |-> S_empty]
UserError(msg, who) == [kind |-> "user_error", msg |-> msg, who |-> who]

\* ObjectInstanceRegistry::instances_in_range(this, size, kind): the objects of
\* the kind that lie inside the instance, in address order
instances_in_range(ob, kind) ==
    CASE kind = "FilterParam" -> [i \in 1..Len(ob.params) |-> i]
      [] kind = "GeneratorInput" -> [i \in 1..Len(ob.inputs) |-> i]
      [] OTHER -> [i \in 1..Len(ob.gparams) |-> i]

\* GeneratorParam<int>::from_string / to_string: decimal
RECURSIVE from_string(_)
from_string(str) ==
    IF Len(str) = 0 THEN 0
    ELSE 10 * from_string(SubSeq(str, 1, Len(str) - 1)) + (str[Len(str)] - 48)

RECURSIVE to_string(_)
to_string(v) ==
    IF v < 10 THEN <<48 + v>>
    ELSE to_string(v \div 10) \o <<48 + (v % 10)>>

RECURSIVE scan_params_no_duplicate_check(_, _, _, _)
scan_params_no_duplicate_check(ob, vf, acc, i) ==
    IF i > Len(vf) THEN [res |-> Ok, v |-> acc]
    ELSE LET param == ob.params[vf[i]] IN
         IF ~param.explicit
         THEN [res |-> UserError("Params in Generators must have explicit names", param.name),
               v |-> acc]
         ELSE IF ~is_valid_name(param.name)
         THEN [res |-> UserError("Invalid Param name", param.name), v |-> acc]
         ELSE scan_params_no_duplicate_check(ob, vf, Append(acc, vf[i]), i + 1)

\* the loop of lines 381-390 from element i of vf on; acc is filter_params
RECURSIVE scan_params(_, _, _, _)
scan_params(ob, vf, acc, i) ==
    IF i > Len(vf) THEN [res |-> Ok, v |-> acc]
    ELSE LET param == ob.params[vf[i]] IN
         IF ~param.explicit
         THEN [res |-> UserError("Params in Generators must have explicit names", param.name),
               v |-> acc]
         ELSE IF ~is_valid_name(param.name)
         THEN [res |-> UserError("Invalid Param name", param.name), v |-> acc]
         ELSE IF \E k \in DOMAIN acc : ob.params[acc[k]].name = param.name
         THEN [res |-> UserError("Duplicate Param name", param.name), v |-> acc]
         ELSE scan_params(ob, vf, Append(acc, vf[i]), i + 1)

\* the loop of lines 394-402; acc is filter_inputs
RECURSIVE scan_inputs(_, _, _, _)
scan_inputs(ob, vi, acc, i) ==
    IF i > Len(vi) THEN [res |-> Ok, v |-> acc]
    ELSE LET input == ob.inputs[vi[i]] IN
         IF ~is_valid_name(input.name)
         THEN [res |-> UserError("Invalid Input name", input.name), v |-> acc]
         ELSE IF \E k \in DOMAIN acc : ob.inputs[acc[k]].name = input.name
         THEN [res |-> UserError("Duplicate Input name", input.name), v |-> acc]
         ELSE scan_inputs(ob, vi, Append(acc, vi[i]), i + 1)

\* the loop of lines 410-417; acc is generator_params
RECURSIVE scan_gparams(_, _, _, _)
scan_gparams(ob, vg, acc, i) ==
    IF i > Len(vg) THEN [res |-> Ok, v |-> acc]
    ELSE LET param == ob.gparams[vg[i]] IN
         IF ~is_valid_name(param.name)
         THEN [res |-> UserError("Invalid GeneratorParam name", param.name), v |-> acc]
         ELSE IF param.name \in DOMAIN acc
         THEN [res |-> UserError("Duplicate GeneratorParam name", param.name), v |-> acc]
         ELSE scan_gparams(ob, vg, MapPut(acc, param.name, vg[i]), i + 1)

both_kinds_not_checked(fp, fi) == FALSE

\* the condition of line 404
both_kinds(fp, fi) == Len(fp) > 0 /\ Len(fi) > 0

\* the body of build_params' if, lines 379-418: the instance afterwards, the
\* outcome, and that the instance was scanned
discover(g) ==
    LET s1 == scan_params(g.objs, instances_in_range(g.objs, "FilterParam"), g.fp, 1)
        g1 == [g EXCEPT !.fp = s1.v]
    IN IF s1.res.kind # "ok" THEN [g |-> g1, res |-> s1.res, scanned |-> TRUE]
    ELSE
    LET s2 == scan_inputs(g.objs, instances_in_range(g.objs, "GeneratorInput"), g.fi, 1)
        g2 == [g1 EXCEPT !.fi = s2.v]
    IN IF s2.res.kind # "ok" THEN [g |-> g2, res |-> s2.res, scanned |-> TRUE]
    ELSE IF both_kinds(g2.fp, g2.fi)
    THEN [g |-> g2,
          res |-> UserError("Input<> may not be used with Param<> or ImageParam in Generators", S_empty),
          scanned |-> TRUE]
    ELSE
    LET s3 == scan_gparams(g.objs, instances_in_range(g.objs, "GeneratorParam"), g.gp, 1)
        g3 == [g2 EXCEPT !.gp = s3.v]
    IN IF s3.res.kind # "ok" THEN [g |-> g3, res |-> s3.res, scanned |-> TRUE]
    ELSE [g |-> [g3 EXCEPT !.built = TRUE], res |-> Ok, scanned |-> TRUE]

build_params_always_scans(g) == discover(g)

\* build_params, lines 377-420
build_params_body(g) ==
    IF g.built THEN [g |-> g, res |-> Ok, scanned |-> FALSE]
    ELSE discover(g)

\* rebuild_params, lines 369-375
rebuild_params_body(g) ==
    build_params_body([g EXCEPT !.built = FALSE, !.fi = <<>>, !.fp = <<>>, !.gp = <<>>])

\* GeneratorInputBase::init_internals, lines 505-527: a buffer input binds
\* func_ to an access of its parameter, a scalar input binds expr_ to a variable
init_internals(input) ==
    IF input.is_buffer
    THEN [input EXCEPT !.bound = "func", !.inits = @ + 1]
    ELSE [input EXCEPT !.bound = "expr", !.inits = @ + 1]

\* init_inputs, lines 457-461, from element i of filter_inputs on
RECURSIVE init_inputs(_, _, _)
init_inputs(inputs, fi, i) ==
    IF i > Len(fi) THEN inputs
    ELSE init_inputs([inputs EXCEPT ![fi[i]] = init_internals(@)], fi, i + 1)

\* to_argument, lines 105-115
to_argument(param) ==
    [name |-> param.name,
     kind |-> IF param.is_buffer THEN "InputBuffer" ELSE "InputScalar"]

\* get_filter_arguments, lines 422-433
get_filter_arguments_body(g) ==
    LET b == build_params_body(g) IN
    IF b.res.kind # "ok"
    THEN [g |-> b.g, res |-> b.res, scanned |-> b.scanned, args |-> <<>>]
    ELSE
    LET g1 == [b.g EXCEPT !.objs.inputs = init_inputs(@, b.g.fi, 1)] IN
    [g |-> g1, res |-> Ok, scanned |-> b.scanned,
     args |-> [i \in 1..Len(g1.fp) |-> to_argument(g1.objs.params[g1.fp[i]])]
              \o [i \in 1..Len(g1.fi) |-> to_argument(g1.objs.inputs[g1.fi[i]])]]

\* get_generator_param_values, lines 435-443
get_generator_param_values_body(g) ==
    LET b == build_params_body(g) IN
    IF b.res.kind # "ok"
    THEN [g |-> b.g, res |-> b.res, scanned |-> b.scanned, values |-> <<>>]
    ELSE [g |-> b.g, res |-> Ok, scanned |-> b.scanned,
          values |-> [k \in DOMAIN b.g.gp |-> to_string(b.g.objs.gparams[b.g.gp[k]].value)]]

set_values_first_key_only(g, params, todo) ==
    IF todo = {} THEN [g |-> g, res |-> Ok]
    ELSE LET key == StrMin(todo) IN
         IF key \notin DOMAIN g.gp
         THEN [g |-> g, res |-> UserError("Generator has no GeneratorParam named", key)]
         ELSE [g |-> [g EXCEPT !.objs.gparams[g.gp[key]].value = from_string(params[key])],
               res |-> Ok]

\* the loop of lines 447-454 over the keys of params not yet visited, in the
\* std::map's key order
RECURSIVE set_values_loop(_, _, _)
set_values_loop(g, params, todo) ==
    IF todo = {} THEN [g |-> g, res |-> Ok]
    ELSE LET key == StrMin(todo) IN
         IF key \notin DOMAIN g.gp
         THEN [g |-> g, res |-> UserError("Generator has no GeneratorParam named", key)]
         ELSE set_values_loop(
                 [g EXCEPT !.objs.gparams[g.gp[key]].value = from_string(params[key])],
                 params, todo \ {key})

\* set_generator_param_values, lines 445-455
set_generator_param_values_body(g, params) ==
    LET b == build_params_body(g) IN
    IF b.res.kind # "ok"
    THEN [g |-> b.g, res |-> b.res, scanned |-> b.scanned]
    ELSE LET r == set_values_loop(b.g, params, DOMAIN params) IN
         [g |-> r.g, res |-> r.res, scanned |-> b.scanned]

NoModule == [args |-> <<>>, name |-> S_empty, built |-> FALSE]

build_module_arguments_first(g, function_name, new_params) ==
    LET a == get_filter_arguments_body(g) IN
    IF a.res.kind # "ok"
    THEN [g |-> a.g, res |-> a.res, scanned |-> a.scanned, module |-> NoModule]
    ELSE
    LET g1 == [a.g EXCEPT !.objs.params = new_params]
        r == IF Len(g1.fp) > 0 THEN rebuild_params_body(g1)
             ELSE [g |-> g1, res |-> Ok, scanned |-> FALSE]
    IN IF r.res.kind # "ok"
    THEN [g |-> r.g, res |-> r.res, scanned |-> TRUE, module |-> NoModule]
    ELSE [g |-> r.g, res |-> Ok, scanned |-> a.scanned \/ r.scanned,
          module |-> [args |-> a.args, name |-> function_name, built |-> TRUE]]

\* build_module, lines 476-485.  build_pipeline() is the generator's own code:
\* it may assign new Params / ImageParams to the instance's free parameters
\* (new_params), and leaves the Inputs alone.
build_module_body(g, function_name, new_params) ==
    LET b == build_params_body(g) IN
    IF b.res.kind # "ok"
    THEN [g |-> b.g, res |-> b.res, scanned |-> b.scanned, module |-> NoModule]
    ELSE
    LET g1 == [b.g EXCEPT !.objs.params = new_params]
        r == IF Len(g1.fp) > 0 THEN rebuild_params_body(g1)
             ELSE [g |-> g1, res |-> Ok, scanned |-> FALSE]
    IN IF r.res.kind # "ok"
    THEN [g |-> r.g, res |-> r.res, scanned |-> TRUE, module |-> NoModule]
    ELSE
    LET a == get_filter_arguments_body(r.g) IN
    [g |-> a.g, res |-> a.res, scanned |-> b.scanned \/ r.scanned,
     module |-> [args |-> a.args, name |-> function_name, built |-> TRUE]]

\* the instance as a record, and back into the variables
G == [objs |-> objs, fp |-> filter_params, fi |-> filter_inputs,
      gp |-> generator_params, built |-> params_built]

SetG(g) ==
    /\ objs' = g.objs
    /\ filter_params' = g.fp
    /\ filter_inputs' = g.fi
    /\ generator_params' = g.gp
    /\ params_built' = g.built

GenLast(op, r, args, values, module, given) ==
    [op |-> op, res |-> r.res, scanned |-> r.scanned, args |-> args, values |-> values,
     module |-> module, given |-> given, pre |-> G]

\* a call that scanned began a discovery cycle: the inputs' init counts as they
\* were when it was made
CycleStart(r) ==
    IF r.scanned THEN [i \in DOMAIN objs.inputs |-> objs.inputs[i].inits] ELSE cycle_start

\* init_internals may be called MaxInits times on an input of the model
InitsLeft == \A i \in DOMAIN objs.inputs : objs.inputs[i].inits < MaxInits

build_params ==
    \E r \in {build_params_body(G)} :
    /\ SetG(r.g)
    /\ gen_last' = GenLast("build_params", r, <<>>, <<>>, NoModule, <<>>)
    /\ cycle_start' = CycleStart(r)
    /\ UNCHANGED <<everReturned, reg_vars, conc_vars, main_vars, fn_vars>>

rebuild_params ==
    \E r \in {rebuild_params_body(G)} :
    /\ SetG(r.g)
    /\ gen_last' = GenLast("rebuild_params", r, <<>>, <<>>, NoModule, <<>>)
    /\ cycle_start' = CycleStart(r)
    /\ UNCHANGED <<everReturned, reg_vars, conc_vars, main_vars, fn_vars>>

get_filter_arguments ==
    \E r \in {get_filter_arguments_body(G)} :
    /\ InitsLeft
    /\ SetG(r.g)
    /\ gen_last' = GenLast("get_filter_arguments", r, r.args, <<>>, NoModule, <<>>)
    /\ cycle_start' = CycleStart(r)
    /\ everReturned' = (everReturned \/ r.res.kind = "ok")
    /\ UNCHANGED <<reg_vars, conc_vars, main_vars, fn_vars>>

get_generator_param_values ==
    \E r \in {get_generator_param_values_body(G)} :
    /\ SetG(r.g)
    /\ gen_last' = GenLast("get_generator_param_values", r, <<>>, r.values, NoModule, <<>>)
    /\ cycle_start' = CycleStart(r)
    /\ UNCHANGED <<everReturned, reg_vars, conc_vars, main_vars, fn_vars>>

set_generator_param_values(params) ==
    \E r \in {set_generator_param_values_body(G, params)} :
    /\ SetG(r.g)
    /\ gen_last' = GenLast("set_generator_param_values", r, <<>>, <<>>, NoModule, params)
    /\ cycle_start' = CycleStart(r)
    /\ UNCHANGED <<everReturned, reg_vars, conc_vars, main_vars, fn_vars>>

build_module(new_params) ==
    \E r \in {build_module_body(G, S_a, new_params)} :
    /\ InitsLeft
    /\ SetG(r.g)
    /\ gen_last' = GenLast("build_module", r, <<>>, <<>>, r.module, <<>>)
    /\ cycle_start' = CycleStart(r)
    /\ everReturned' = (everReturned \/ r.res.kind = "ok")
    /\ UNCHANGED <<reg_vars, conc_vars, main_vars, fn_vars>>

-----------------------------------------------------------------------------
(* Helpers of generate_filter_main that live outside Generator.cpp *)

\* std::string::find(delim, start): the first position >= start where delim
\* occurs in source, 0 when there is none
Find(source, delim, start) ==
    LET hits == {i \in start..(Len(source) - Len(delim) + 1) :
                    SubSeq(source, i, i + Len(delim) - 1) = delim}
    IN IF hits = {} THEN 0 ELSE CHOOSE i \in hits : \A j \in hits : i <= j

\* split_string(source, delim): the pieces between the delimiters, empty
\* pieces included; the empty string gives one empty piece
RECURSIVE split_from(_, _, _)
split_from(source, delim, start) ==
    LET found == Find(source, delim, start) IN
    IF found # 0
    THEN <<SubSeq(source, start, found - 1)>> \o split_from(source, delim, found + Len(delim))
    ELSE <<SubSeq(source, start, Len(source))>>

split_string(source, delim) == split_from(source, delim, 1)

\* extract_namespaces(name, namespaces): the name without its namespaces
extract_namespaces(name) ==
    LET parts == split_string(name, S_colons) IN parts[Len(parts)]

\* Target: operating system, architecture, bits and features
NoTarget == [os |-> "OSUnknown", arch |-> "ArchUnknown", bits |-> 0, features |-> {}]
HostTarget == [os |-> "Linux", arch |-> "X86", bits |-> 64, features |-> {}]

\* Target::Target(const std::string &): the tokens between dashes, merged in order
RECURSIVE merge_tokens(_, _, _)
merge_tokens(t, toks, i) ==
    IF i > Len(toks) THEN t
    ELSE LET k == toks[i] IN
         merge_tokens(
            CASE k = S_host -> HostTarget
              [] k = S_x86 -> [t EXCEPT !.arch = "X86"]
              [] k = S_pnacl -> [t EXCEPT !.arch = "PNaCl"]
              [] k = S_32 -> [t EXCEPT !.bits = 32]
              [] k = S_64 -> [t EXCEPT !.bits = 64]
              [] k = S_linux -> [t EXCEPT !.os = "Linux"]
              [] k = S_windows -> [t EXCEPT !.os = "Windows"]
              [] k = S_nacl -> [t EXCEPT !.os = "NaCl"]
              [] k = S_mingw -> [t EXCEPT !.features = @ \cup {"MinGW"}]
              [] OTHER -> t,
            toks, i + 1)

Target(str) == merge_tokens(NoTarget, split_string(str, S_dash), 1)

\* Target::to_string(): arch-bits-os, then the features
Target_to_string(t) ==
    (CASE t.arch = "X86" -> S_x86 [] t.arch = "PNaCl" -> S_pnacl [] OTHER -> S_empty)
    \o S_dash \o to_string(t.bits) \o S_dash
    \o (CASE t.os = "Linux" -> S_linux [] t.os = "Windows" -> S_windows
          [] t.os = "NaCl" -> S_nacl [] OTHER -> S_empty)
    \o (IF "MinGW" \in t.features THEN S_dash \o S_mingw ELSE S_empty)

-----------------------------------------------------------------------------
(* File naming, Generator.cpp:32-96 *)

compute_base_path_keeps_namespaces(output_dir, function_name, file_base_name) ==
    output_dir \o S_slash \o (IF file_base_name = S_empty THEN function_name ELSE file_base_name)

\* compute_base_path, lines 32-39
compute_base_path(output_dir, function_name, file_base_name) ==
    LET simple_name == extract_namespaces(function_name) IN
    output_dir \o S_slash \o (IF file_base_name = S_empty THEN simple_name ELSE file_base_name)

get_extension_any_override(def, options) ==
    IF options.extensions # <<>> THEN options.extensions[StrMin(DOMAIN options.extensions)]
    ELSE def

\* get_extension, lines 41-47
get_extension(def, options) ==
    IF def \in DOMAIN options.extensions THEN options.extensions[def] ELSE def

NoOutputs == [object_name |-> S_empty, assembly_name |-> S_empty, bitcode_name |-> S_empty,
              c_header_name |-> S_empty, c_source_name |-> S_empty, stmt_name |-> S_empty,
              stmt_html_name |-> S_empty, static_library_name |-> S_empty]

is_pnacl_checked_last(target) == target.arch = "PNaCl" /\ target.os # "Windows"

\* the test of line 58
is_pnacl(target) == target.arch = "PNaCl"

\* compute_outputs, lines 49-96
compute_outputs(target, base_path, options) ==
    LET is_windows_coff == target.os = "Windows" /\ "MinGW" \notin target.features IN
    [object_name |->
        IF options.emit_o
        THEN IF is_pnacl(target) THEN base_path \o get_extension(X_bc, options)
             ELSE IF is_windows_coff THEN base_path \o get_extension(X_obj, options)
             ELSE base_path \o get_extension(X_o, options)
        ELSE S_empty,
     assembly_name |->
        IF options.emit_assembly THEN base_path \o get_extension(X_s, options) ELSE S_empty,
     bitcode_name |->
        IF options.emit_bitcode THEN base_path \o get_extension(X_bc, options) ELSE S_empty,
     c_header_name |->
        IF options.emit_h THEN base_path \o get_extension(X_h, options) ELSE S_empty,
     c_source_name |->
        IF options.emit_cpp THEN base_path \o get_extension(X_cpp, options) ELSE S_empty,
     stmt_name |->
        IF options.emit_stmt THEN base_path \o get_extension(X_stmt, options) ELSE S_empty,
     stmt_html_name |->
        IF options.emit_stmt_html THEN base_path \o get_extension(X_html, options) ELSE S_empty,
     static_library_name |->
        IF options.emit_static_library
        THEN IF is_windows_coff THEN base_path \o get_extension(X_lib, options)
             ELSE base_path \o get_extension(X_a, options)
        ELSE S_empty]

-----------------------------------------------------------------------------
(* generate_filter_main, Generator.cpp:134-307 *)

\* the most targets in one target= list
MaxTargets == 2

\* flags_info as declared on lines 142-148
FlagsInit == [f \in {F_f, F_g, F_o, F_e, F_n, F_x, F_r} |-> S_empty]

\* the loop of lines 151-174 from argv[i] on
RECURSIVE parse_args(_, _, _, _)
parse_args(av, i, flags_info, generator_args) ==
    IF i > Len(av)
    THEN [ok |-> TRUE, flags_info |-> flags_info, generator_args |-> generator_args]
    ELSE IF Len(av[i]) = 0 \/ av[i][1] # 45
    THEN LET v == split_string(av[i], S_eq) IN
         IF Len(v) # 2 \/ v[1] = S_empty \/ v[2] = S_empty
         THEN [ok |-> FALSE, flags_info |-> flags_info, generator_args |-> generator_args]
         ELSE parse_args(av, i + 1, flags_info, MapPut(generator_args, v[1], v[2]))
    ELSE IF av[i] \in DOMAIN flags_info
    THEN IF i + 1 > Len(av)
         THEN [ok |-> FALSE, flags_info |-> flags_info, generator_args |-> generator_args]
         ELSE parse_args(av, i + 2, [flags_info EXCEPT ![av[i]] = av[i + 1]], generator_args)
    ELSE [ok |-> FALSE, flags_info |-> flags_info, generator_args |-> generator_args]

resolve_generator_takes_first(flag_g, runtime_name, generator_names) ==
    IF Len(generator_names) = 0 /\ runtime_name = S_empty
    THEN [ok |-> FALSE, generator_name |-> S_empty]
    ELSE IF flag_g = S_empty /\ runtime_name = S_empty
    THEN [ok |-> TRUE, generator_name |-> generator_names[1]]
    ELSE [ok |-> TRUE, generator_name |-> flag_g]

\* lines 178-197: the generator the run is about, or a usage error
resolve_generator(flag_g, runtime_name, generator_names) ==
    IF Len(generator_names) = 0 /\ runtime_name = S_empty
    THEN [ok |-> FALSE, generator_name |-> S_empty]
    ELSE IF flag_g = S_empty /\ runtime_name = S_empty
    THEN IF Len(generator_names) > 1
         THEN [ok |-> FALSE, generator_name |-> flag_g]
         ELSE [ok |-> TRUE, generator_name |-> generator_names[1]]
    ELSE [ok |-> TRUE, generator_name |-> flag_g]

EmitNone == [emit_o |-> FALSE, emit_assembly |-> FALSE, emit_bitcode |-> FALSE,
             emit_h |-> FALSE, emit_cpp |-> FALSE, emit_stmt |-> FALSE,
             emit_stmt_html |-> FALSE, emit_static_library |-> FALSE,
             extensions |-> <<>>, warnings |-> <<>>]

\* the loop of lines 227-248 from emit_flags[i] on; warnings is what went to cerr
RECURSIVE emit_loop(_, _, _)
emit_loop(eo, emit_flags, i) ==
    IF i > Len(emit_flags) THEN eo
    ELSE LET opt == emit_flags[i] IN
         emit_loop(
            CASE opt = E_assembly -> [eo EXCEPT !.emit_assembly = TRUE]
              [] opt = E_bitcode -> [eo EXCEPT !.emit_bitcode = TRUE]
              [] opt = E_stmt -> [eo EXCEPT !.emit_stmt = TRUE]
              [] opt = E_html -> [eo EXCEPT !.emit_stmt_html = TRUE]
              [] opt = E_cpp -> [eo EXCEPT !.emit_cpp = TRUE]
              [] opt = E_o -> [eo EXCEPT !.emit_o = TRUE]
              [] opt = E_h -> [eo EXCEPT !.emit_h = TRUE]
              [] opt = E_static_library -> [eo EXCEPT !.emit_static_library = TRUE]
              [] OTHER -> IF opt # S_empty THEN [eo EXCEPT !.warnings = Append(@, opt)] ELSE eo,
            emit_flags, i + 1)

build_emit_options_keeps_defaults(flag_e) ==
    LET emit_flags == split_string(flag_e, S_comma) IN
    emit_loop([EmitNone EXCEPT !.emit_static_library = TRUE, !.emit_h = TRUE], emit_flags, 1)

\* lines 217-249
build_emit_options(flag_e) ==
    LET emit_flags == split_string(flag_e, S_comma) IN
    IF Len(emit_flags) = 0 \/ (Len(emit_flags) = 1 /\ emit_flags[1] = S_empty)
    THEN [EmitNone EXCEPT !.emit_static_library = TRUE, !.emit_h = TRUE]
    ELSE emit_loop(EmitNone, emit_flags, 1)

\* the loop of lines 252-263 from extension_flags[i] on
RECURSIVE extension_loop(_, _, _)
extension_loop(eo, extension_flags, i) ==
    IF i > Len(extension_flags) THEN [ok |-> TRUE, emit_options |-> eo]
    ELSE LET x == extension_flags[i] IN
         IF x = S_empty THEN extension_loop(eo, extension_flags, i + 1)
         ELSE LET ext_pair == split_string(x, S_eq) IN
              IF Len(ext_pair) # 2 THEN [ok |-> FALSE, emit_options |-> eo]
              ELSE extension_loop([eo EXCEPT !.extensions = MapPut(@, ext_pair[1], ext_pair[2])],
                                  extension_flags, i + 1)

sub_generator_args_keeps_target(generator_args, target) == generator_args

\* lines 287-288: the CLI arguments with "target" replaced by the target's own string
sub_generator_args(generator_args, target) ==
    MapPut(generator_args, S_target, Target_to_string(target))

NoEntry == [call |-> "none", name |-> S_empty, args |-> <<>>, inst |-> 0,
            target |-> NoTarget, outputs |-> NoOutputs]

\* module_producer, lines 285-296: what it ends in, and the calls it makes.
\* A created instance is named by the position of its create call.
module_producer(fs, generator_name, generator_args, name, target, done) ==
    LET args == sub_generator_args(generator_args, target)
        r == create_body(fs, generator_name, args)
        c == [NoEntry EXCEPT !.call = "create", !.name = generator_name, !.args = args,
                             !.target = target, !.inst = Len(done) + 1]
    IN IF r.res # "ok" THEN [end |-> "user_error", trace |-> Append(done, c)]
       ELSE IF r.inst.null THEN [end |-> "exit1", trace |-> Append(done, c)]
       ELSE [end |-> "ok",
             trace |-> done \o <<c, [NoEntry EXCEPT !.call = "build_module", !.name = name,
                                                    !.inst = Len(done) + 1,
                                                    !.target = Target(args[S_target])]>>]

M0 == [flags_info |-> FlagsInit, generator_args |-> <<>>, runtime_name |-> S_empty,
       generator_names |-> <<>>, generator_name |-> S_empty, function_name |-> S_empty,
       output_dir |-> S_empty, file_base_name |-> S_empty, emit_options |-> EmitNone,
       targets |-> <<>>, output_files |-> NoOutputs, pending |-> {}]

\* lines 151-174
main_parse ==
    /\ main_pc = "start"
    /\ LET r == parse_args(argv, 1, FlagsInit, <<>>) IN
       IF ~r.ok
       THEN /\ main_pc' = "ret1"
            /\ m' = m
       ELSE /\ main_pc' = "parsed"
            /\ m' = [m EXCEPT !.flags_info = r.flags_info, !.generator_args = r.generator_args]
    /\ UNCHANGED <<argv, trace, reg_vars, conc_vars, gen_vars, fn_vars>>

\* lines 176-215
main_resolve ==
    /\ main_pc = "parsed"
    /\ LET runtime_name == m.flags_info[F_r]
           generator_names == enumerate_body(factories)
           g == resolve_generator(m.flags_info[F_g], runtime_name, generator_names)
           function_name == IF m.flags_info[F_f] = S_empty THEN g.generator_name
                            ELSE m.flags_info[F_f]
           output_dir == m.flags_info[F_o]
       IN IF ~g.ok
          THEN /\ main_pc' = "ret1"
               /\ m' = [m EXCEPT !.runtime_name = runtime_name,
                                 !.generator_names = generator_names]
          ELSE /\ m' = [m EXCEPT !.runtime_name = runtime_name,
                                 !.generator_names = generator_names,
                                 !.generator_name = g.generator_name,
                                 !.function_name = function_name,
                                 !.output_dir = output_dir,
                                 !.file_base_name = m.flags_info[F_n]]
               /\ main_pc' = IF output_dir = S_empty \/ S_target \notin DOMAIN m.generator_args
                             THEN "ret1" ELSE "resolved"
    /\ UNCHANGED <<argv, trace, reg_vars, conc_vars, gen_vars, fn_vars>>

\* lines 217-270
main_options ==
    /\ main_pc = "resolved"
    /\ LET eo == build_emit_options(m.flags_info[F_e])
           x == extension_loop(eo, split_string(m.flags_info[F_x], S_comma), 1)
           target_strings == split_string(m.generator_args[S_target], S_comma)
       IN IF ~x.ok
          THEN /\ main_pc' = "ret1"
               /\ m' = [m EXCEPT !.emit_options = x.emit_options]
          ELSE /\ main_pc' = "options"
               /\ m' = [m EXCEPT !.emit_options = x.emit_options,
                                 !.targets = [i \in DOMAIN target_strings |->
                                                 Target(target_strings[i])]]
    /\ UNCHANGED <<argv, trace, reg_vars, conc_vars, gen_vars, fn_vars>>

\* lines 272-280
main_runtime ==
    /\ main_pc = "options"
    /\ IF m.runtime_name # S_empty
       THEN IF Len(m.targets) # 1
            THEN /\ main_pc' = "ret1"
                 /\ trace' = trace
            ELSE LET base_path == compute_base_path(m.output_dir, m.runtime_name, S_empty)
                     output_files == compute_outputs(m.targets[1], base_path, m.emit_options)
                 IN /\ trace' = Append(trace,
                                   [NoEntry EXCEPT !.call = "compile_standalone_runtime",
                                                   !.outputs = output_files,
                                                   !.target = m.targets[1]])
                    /\ main_pc' = "runtime_done"
       ELSE /\ main_pc' = "runtime_done"
            /\ trace' = trace
    /\ UNCHANGED <<argv, m, reg_vars, conc_vars, gen_vars, fn_vars>>

\* lines 282-306, up to the call of compile_multitarget when there are several targets
main_generator ==
    /\ main_pc = "runtime_done"
    /\ IF m.generator_name = S_empty
       THEN /\ main_pc' = "ret0"
            /\ UNCHANGED <<m, trace>>
       ELSE
       LET base_path == compute_base_path(m.output_dir, m.function_name, m.file_base_name)
           output_files == compute_outputs(m.targets[1], base_path, m.emit_options)
       IN IF Len(m.targets) > 1
          THEN /\ trace' = Append(trace, [NoEntry EXCEPT !.call = "compile_multitarget",
                                                         !.name = m.function_name,
                                                         !.outputs = output_files])
               /\ m' = [m EXCEPT !.output_files = output_files, !.pending = DOMAIN m.targets]
               /\ main_pc' = "multitarget"
          ELSE LET p == module_producer(factories, m.generator_name, m.generator_args,
                                        m.function_name, m.targets[1], trace)
               IN /\ m' = [m EXCEPT !.output_files = output_files]
                  /\ IF p.end = "ok"
                     THEN /\ trace' = Append(p.trace, [NoEntry EXCEPT !.call = "Module::compile",
                                                                      !.inst = Len(trace) + 1,
                                                                      !.outputs = output_files])
                          /\ main_pc' = "ret0"
                     ELSE /\ trace' = p.trace
                          /\ main_pc' = p.end
    /\ UNCHANGED <<argv, reg_vars, conc_vars, gen_vars, fn_vars>>

\* compile_multitarget asks the producer for the module of one more target
producer_call(i) ==
    /\ main_pc = "multitarget"
    /\ i \in m.pending
    /\ LET p == module_producer(factories, m.generator_name, m.generator_args,
                                m.function_name, m.targets[i], trace)
       IN /\ trace' = p.trace
          /\ IF p.end = "ok"
             THEN /\ m' = [m EXCEPT !.pending = @ \ {i}]
                  /\ main_pc' = main_pc
             ELSE /\ m' = m
                  /\ main_pc' = p.end
    /\ UNCHANGED <<argv, reg_vars, conc_vars, gen_vars, fn_vars>>

\* compile_multitarget has every module and returns; line 306
multitarget_done ==
    /\ main_pc = "multitarget"
    /\ m.pending = {}
    /\ main_pc' = "ret0"
    /\ UNCHANGED <<argv, m, trace, reg_vars, conc_vars, gen_vars, fn_vars>>

-----------------------------------------------------------------------------
(* The free functions of Generator.cpp called on their own: the arguments  *)
(* are in fn_args, the call puts what it returns in fn_result.             *)

\* the longest name given to is_valid_name
MaxNameLen == 3

\* characters at and around the ends of the ranges is_alpha and is_alnum test:
\* "/" "0" "9" ":" "@" "A" "Z" "[" "_" "`" "a" "z" "{"
NameAlphabet == {47, 48, 57, 58, 64, 65, 90, 91, 95, 96, 97, 122, 123}

NameStrings == UNION {[1..k -> NameAlphabet] : k \in 0..MaxNameLen}

is_valid_name_call ==
    /\ fn_args.op = "is_valid_name"
    /\ ~fn_result.done
    /\ fn_result' = [done |-> TRUE, value |-> is_valid_name(fn_args.n)]
    /\ UNCHANGED <<fn_args, reg_vars, conc_vars, gen_vars, main_vars>>

\* the targets compute_outputs is given
TargetPool ==
    [os : {"Linux", "Windows", "NaCl"}, arch : {"X86", "PNaCl"}, bits : {64},
     features : {{}, {"MinGW"}}]

\* EmitOptions: the eight emit flags in every combination
EmitKinds == {"emit_o", "emit_assembly", "emit_bitcode", "emit_h", "emit_cpp", "emit_stmt",
              "emit_stmt_html", "emit_static_library"}

\* EmitOptions::extensions tables: empty, one override, an override of a
\* Windows default, two overrides that name each other, an override onto
\* another kind's default, an override of an extension no kind has
ExtensionsPool ==
    {<<>>,
     MapPut(<<>>, X_o, X_obj2),
     MapPut(MapPut(<<>>, X_lib, X_a), X_obj, X_obj2),
     MapPut(MapPut(<<>>, X_o, X_bc), X_bc, X_o),
     MapPut(<<>>, X_h, X_a),
     MapPut(<<>>, S_junk, X_obj2)}

EmitOptionsPool ==
    {[k \in EmitKinds \cup {"extensions", "warnings"} |->
        IF k = "extensions" THEN x ELSE IF k = "warnings" THEN <<>> ELSE k \in on] :
        on \in SUBSET EmitKinds, x \in ExtensionsPool}

compute_outputs_call ==
    /\ fn_args.op = "compute_outputs"
    /\ ~fn_result.done
    /\ fn_result' = [done |-> TRUE,
                     out |-> compute_outputs(fn_args.target, fn_args.base_path, fn_args.options)]
    /\ UNCHANGED <<fn_args, reg_vars, conc_vars, gen_vars, main_vars>>

-----------------------------------------------------------------------------
(* Claims about the registry *)

Count(list, x) == Cardinality({i \in DOMAIN list : list[i] = x})

\* C1: register_factory(name, f2) while f1 is registered under the same valid
\* name fails with an internal error; afterwards the registry still maps name
\* to f1: a following create(name, config) invokes f1 and enumerate() lists
\* name exactly once.
C1_DuplicateKeepsFirst ==
    /\ (reg_last.op = "register_factory" /\ is_valid_name(reg_last.name)
            /\ reg_last.name \in reg_last.before)
         => reg_last.res = "internal_error"
    /\ \A n \in NamePool :
         dupSeen[n] # NoDup =>
            /\ n \in DOMAIN factories
            /\ factories[n] = dupSeen[n].first
            /\ (reg_last.op = "create" /\ reg_last.name = n)
                 => (reg_last.res = "ok" /\ reg_last.inst.factory = dupSeen[n].first)
            /\ reg_last.op = "enumerate" => Count(reg_last.list, n) = 1

\* f2 was refused under "a" while f1 was registered, and the create that
\* followed was served by f1
C1_Witness ==
    /\ dupSeen[S_a] = [first |-> "f1", rejected |-> "f2"]
    /\ reg_last.op = "create" /\ reg_last.name = S_a
    /\ reg_last.inst.factory = "f1"

\* C3: the registry's name set is the abstract set (successful registers minus
\* successful unregisters); failing calls leave it unchanged; enumerate()
\* returns exactly that set, duplicate-free and sorted; create(n) succeeds iff n
\* is in the set and fails with a user error otherwise; unregister_factory of
\* an absent name fails with an internal error.
C3_RegistryIsAbstractSet ==
    /\ DOMAIN factories = names_abs
    /\ reg_last.res \in {"user_error", "internal_error"} => names_abs = reg_last.before
    /\ reg_last.op = "register_factory" =>
         /\ ~is_valid_name(reg_last.name) => reg_last.res = "user_error"
         /\ reg_last.res = "ok" =>
              (reg_last.name \notin reg_last.before
                 /\ names_abs = reg_last.before \cup {reg_last.name})
    /\ reg_last.op = "unregister_factory" =>
         /\ reg_last.name \notin reg_last.before => reg_last.res = "internal_error"
         /\ reg_last.name \in reg_last.before =>
              (reg_last.res = "ok" /\ names_abs = reg_last.before \ {reg_last.name})
    /\ reg_last.op = "create" =>
         /\ names_abs = reg_last.before
         /\ reg_last.res = "ok" <=> reg_last.name \in names_abs
         /\ reg_last.res # "ok" => reg_last.res = "user_error"
    /\ reg_last.op = "enumerate" =>
         /\ names_abs = reg_last.before
         /\ Range(reg_last.list) = names_abs
         /\ Len(reg_last.list) = Cardinality(names_abs)
         /\ \A i, j \in DOMAIN reg_last.list :
                i < j => StrLess(reg_last.list[i], reg_last.list[j])

\* "b", "ab" and "a" were registered (in some order), "ab" unregistered again,
\* and enumerate() answered <<"a", "b">>
C3_Witness ==
    /\ reg_last.op = "enumerate"
    /\ reg_last.list = <<S_a, S_b>>
    /\ names_abs = {S_a, S_b}

\* C2: every access to the factories map is made by the thread that holds the
\* registry mutex, so at most one thread at a time is inside; every call
\* answers what the sequential run that orders the calls by their taking of the
\* mutex answers; and the list enumerate() returns is the key set the map had
\* at one instant between the call and its return.
C2_Serialized ==
    /\ \A t \in Threads : pc[t] \in {"find", "act", "iter", "unlock"} => mutex = t
    /\ \A t, u \in Threads :
         (pc[t] \in {"find", "act", "iter", "unlock"}
            /\ pc[u] \in {"find", "act", "iter", "unlock"}) => t = u
    /\ mutex = 0 => factories = lin
    /\ \A t \in Threads :
         pc[t] \in {"unlock", "raise"} =>
            /\ loc[t].res = loc[t].x_res
            /\ loc[t].inst = loc[t].x_inst
            /\ call[t].op = "enumerate" =>
                 /\ loc[t].result = loc[t].x_list
                 /\ Range(loc[t].result) \in seenSets[t]
                 /\ Len(loc[t].result) = Cardinality(Range(loc[t].result))

\* a thread is about to return a two-name list from enumerate() while another
\* thread waits for the mutex with an unregister_factory of one of the names
C2_Witness ==
    \E t, u \in Threads :
        /\ t # u
        /\ pc[t] = "unlock" /\ call[t].op = "enumerate"
        /\ loc[t].result = <<S_a, S_b>>
        /\ pc[u] = "lock" /\ call[u].op = "unregister_factory" /\ call[u].name = S_a

InCreate(t) ==
    /\ call[t].op = "create"
    /\ pc[t] \in {"find", "act", "blocked", "relock_failed", "unlock"}

\* C15, first half (kept in the amended statement): from create's lookup until
\* its factory has returned the thread holds the mutex, no other thread is
\* inside the registry, the map is the one the lookup saw, and the instance
\* returned comes from the factory registered under the name.
CreateHoldsMutex ==
    \A t \in Threads :
        InCreate(t) =>
            /\ mutex = t
            /\ \A u \in Threads \ {t} :
                  pc[u] \notin {"find", "act", "iter", "blocked", "relock_failed", "unlock"}
            /\ factories = lin
            /\ (pc[t] = "unlock" /\ loc[t].res = "ok") =>
                  /\ call[t].name \in DOMAIN factories
                  /\ loc[t].inst.factory = factories[call[t].name]

-----------------------------------------------------------------------------
(* Claims about GeneratorBase *)

GParamNames(ob) == {ob.gparams[i].name : i \in DOMAIN ob.gparams}
GParamValues(ob) == [i \in DOMAIN ob.gparams |-> ob.gparams[i].value]

\* C4: set_generator_param_values(values) with at least one key that names no
\* configuration parameter of the instance fails with a user error and leaves
\* the value of every configuration parameter as it was before the call.
C4_UnknownKeyLeavesValues ==
    (gen_last.op = "set_generator_param_values"
        /\ \E k \in DOMAIN gen_last.given : k \notin GParamNames(gen_last.pre.objs))
    => /\ gen_last.res.kind = "user_error"
       /\ GParamValues(objs) = GParamValues(gen_last.pre.objs)

\* C5: an instance that declares a free parameter and an Input at the same time
\* is never discovered: every call fails with a user error, and no call ever
\* returns an Argument list or a Module.
C5_ParamsAndInputsExclusive ==
    (Len(objs.params) > 0 /\ Len(objs.inputs) > 0)
    => /\ ~params_built
       /\ ~everReturned
       /\ gen_last.op # "none" =>
            /\ gen_last.res.kind = "user_error"
            /\ gen_last.args = <<>>
            /\ gen_last.module = NoModule

\* a valid free parameter "b" and a valid input "a", and get_filter_arguments
\* stopped at line 405
C5_Witness ==
    /\ objs.params = <<[name |-> S_b, explicit |-> TRUE, is_buffer |-> TRUE]>>
    /\ Len(objs.inputs) = 1 /\ objs.inputs[1].name = S_a
    /\ gen_last.op = "get_filter_arguments"
    /\ gen_last.res.msg = "Input<> may not be used with Param<> or ImageParam in Generators"

IdSeq(n) == [i \in 1..n |-> i]

\* C6: once build_params has completed, further build_params,
\* get_filter_arguments, get_generator_param_values and
\* set_generator_param_values calls scan nothing and leave filter_params,
\* filter_inputs and generator_params as they are (and build_params succeeds);
\* a rebuild_params that completes has scanned, and the three collections then
\* hold exactly the declared objects, each once.
C6_DiscoveryIdempotent ==
    /\ (gen_last.pre.built
          /\ gen_last.op \in {"build_params", "get_filter_arguments",
                              "get_generator_param_values", "set_generator_param_values"})
       => /\ ~gen_last.scanned
          /\ filter_params = gen_last.pre.fp
          /\ filter_inputs = gen_last.pre.fi
          /\ generator_params = gen_last.pre.gp
          /\ params_built
          /\ gen_last.op = "build_params" => gen_last.res.kind = "ok"
    /\ (gen_last.op = "rebuild_params" /\ gen_last.res.kind = "ok")
       => /\ gen_last.scanned
          /\ params_built
          /\ filter_params = IdSeq(Len(objs.params))
          /\ filter_inputs = IdSeq(Len(objs.inputs))
          /\ DOMAIN generator_params = GParamNames(objs)
          /\ Cardinality(DOMAIN generator_params) = Len(objs.gparams)
          /\ \A k \in DOMAIN generator_params :
                objs.gparams[generator_params[k]].name = k

\* a discovered instance with two free parameters and a GeneratorParam was
\* rebuilt, and holds each once
C6_Witness ==
    /\ gen_last.op = "rebuild_params" /\ gen_last.res.kind = "ok"
    /\ gen_last.pre.built /\ gen_last.pre.fp = <<1, 2>>
    /\ filter_params = <<1, 2>>
    /\ Len(objs.gparams) = 1 /\ DOMAIN generator_params = {S_d}

\* C16: an Input reported by a returned Argument list or Module has been
\* initialised, and between two scans init_internals runs exactly once on each
\* discovered Input, however many get_filter_arguments / build_module calls
\* are made.
C16_InitOncePerCycle ==
    /\ (gen_last.op \in {"get_filter_arguments", "build_module"} /\ gen_last.res.kind = "ok") =>
          \A k \in DOMAIN filter_inputs :
              /\ objs.inputs[filter_inputs[k]].bound # "none"
              /\ objs.inputs[filter_inputs[k]].inits - cycle_start[filter_inputs[k]] = 1
    /\ \A i \in DOMAIN objs.inputs : objs.inputs[i].inits - cycle_start[i] <= 1

\* the Arguments of the free parameters and inputs the instance now holds
ArgumentsNow ==
    [i \in 1..Len(filter_params) |-> to_argument(objs.params[filter_params[i]])]
    \o [i \in 1..Len(filter_inputs) |-> to_argument(objs.inputs[filter_inputs[i]])]

\* C17: the Module build_module returns carries the Arguments of the free
\* parameters as the pipeline left them; an instance discovered with at least
\* one free parameter is scanned again after the pipeline is built (so
\* parameters the pipeline left invalid make build_module fail); an instance
\* discovered with only Inputs, or nothing, is not scanned again.
C17_BuildModuleOrder ==
    gen_last.op = "build_module" =>
        /\ gen_last.res.kind = "ok" =>
              /\ gen_last.module.built
              /\ gen_last.module.args = ArgumentsNow
              /\ params_built
        /\ (gen_last.pre.built /\ Len(gen_last.pre.fp) > 0) =>
              /\ gen_last.scanned
              /\ gen_last.res.kind = "ok" =>
                    /\ filter_params = IdSeq(Len(objs.params))
                    /\ \A i \in DOMAIN objs.params :
                          objs.params[i].explicit /\ is_valid_name(objs.params[i].name)
        /\ (gen_last.pre.built /\ Len(gen_last.pre.fp) = 0) =>
              /\ ~gen_last.scanned
              /\ gen_last.res.kind = "ok"
              /\ filter_inputs = gen_last.pre.fi
              /\ generator_params = gen_last.pre.gp

\* build_module on a discovered instance whose pipeline swapped free parameter
\* "a" for the buffer "b": the Module's argument is "b"
C17_Witness ==
    /\ gen_last.op = "build_module" /\ gen_last.res.kind = "ok"
    /\ gen_last.pre.built
    /\ Len(gen_last.pre.objs.params) = 1 /\ gen_last.pre.objs.params[1].name = S_a
    /\ gen_last.module.args = <<[name |-> S_b, kind |-> "InputBuffer"]>>

\* C18: an Argument list that get_filter_arguments returns has pairwise
\* distinct names, lists the free parameters before the inputs, and holds each
\* declared free parameter and each declared input exactly once.
C18_ArgumentsUnique ==
    (gen_last.op = "get_filter_arguments" /\ gen_last.res.kind = "ok") =>
        LET args == gen_last.args
            np == Len(objs.params)
            ni == Len(objs.inputs)
        IN /\ \A i, j \in DOMAIN args : args[i].name = args[j].name => i = j
           /\ Len(args) = np + ni
           /\ \E f \in [1..np -> 1..np] :
                 /\ \A i, j \in 1..np : f[i] = f[j] => i = j
                 /\ \A i \in 1..np : args[i] = to_argument(objs.params[f[i]])
           /\ \E f \in [1..ni -> 1..ni] :
                 /\ \A i, j \in 1..ni : f[i] = f[j] => i = j
                 /\ \A i \in 1..ni : args[np + i] = to_argument(objs.inputs[f[i]])

\* the list of an instance with free parameters "b" and "a", returned by a call
\* on the discovered instance
C18_Witness ==
    /\ gen_last.op = "get_filter_arguments" /\ gen_last.res.kind = "ok"
    /\ Len(gen_last.args) = 2
    /\ gen_last.args[1].name = S_b /\ gen_last.args[2].name = S_a
    /\ gen_last.pre.built

\* C19: after a successful set_generator_param_values(values) each
\* GeneratorParam named by a key holds the parsed value and every other one its
\* previous value; a get_generator_param_values() made then has one entry per
\* GeneratorParam, which is v for a supplied key whose v the codec reads and
\* writes back unchanged, and the previous value's string for any other; and
\* every get_generator_param_values() result has exactly one entry per
\* GeneratorParam, its current value's string.
C19_SetThenGet ==
    /\ (gen_last.op = "set_generator_param_values" /\ gen_last.res.kind = "ok") =>
          LET given == gen_last.given
              before == gen_last.pre.objs.gparams
              got == get_generator_param_values_body(G)
          IN /\ DOMAIN given \subseteq GParamNames(objs)
             /\ \A i \in DOMAIN objs.gparams :
                   objs.gparams[i].value =
                       IF objs.gparams[i].name \in DOMAIN given
                       THEN from_string(given[objs.gparams[i].name])
                       ELSE before[i].value
             /\ got.res.kind = "ok"
             /\ DOMAIN got.values = GParamNames(objs)
             /\ Cardinality(DOMAIN got.values) = Len(objs.gparams)
             /\ \A i \in DOMAIN objs.gparams :
                   LET k == objs.gparams[i].name IN
                   IF k \in DOMAIN given
                   THEN to_string(from_string(given[k])) = given[k] => got.values[k] = given[k]
                   ELSE got.values[k] = to_string(before[i].value)
    /\ (gen_last.op = "get_generator_param_values" /\ gen_last.res.kind = "ok") =>
          /\ DOMAIN gen_last.values = GParamNames(objs)
          /\ Cardinality(DOMAIN gen_last.values) = Len(objs.gparams)
          /\ \A i \in DOMAIN objs.gparams :
                gen_last.values[objs.gparams[i].name] = to_string(objs.gparams[i].value)
          /\ GParamValues(objs) = GParamValues(gen_last.pre.objs)

\* {"b": "42"} then {"d": "1"} set on an instance with GeneratorParams "b" and
\* "d": b keeps 42
C19_Witness ==
    /\ gen_last.op = "set_generator_param_values" /\ gen_last.res.kind = "ok"
    /\ gen_last.given = [k \in {S_d} |-> S_1]
    /\ Len(objs.gparams) = 2
    /\ objs.gparams[1] = [name |-> S_b, value |-> 42]
    /\ objs.gparams[2] = [name |-> S_d, value |-> 1]

\* C20: a build_params that fails leaves filter_params, filter_inputs and
\* generator_params as they were before the call, and build_params called
\* again on the instance fails with the same error about the same object.
C20_FailedScanLeavesNothing ==
    (gen_last.op = "build_params" /\ gen_last.res.kind = "user_error") =>
        /\ filter_params = gen_last.pre.fp
        /\ filter_inputs = gen_last.pre.fi
        /\ generator_params = gen_last.pre.gp
        /\ build_params_body(G).res = gen_last.res

-----------------------------------------------------------------------------
(* Claims about generate_filter_main *)

\* what the command line says, read off argv
Parsed == parse_args(argv, 1, FlagsInit, <<>>)
Flag(f) == Parsed.flags_info[f]
Registered == DOMAIN factories
Terminal == main_pc \in {"ret0", "ret1", "user_error", "exit1"}
Resolved == main_pc \notin {"none", "start", "parsed"}
Calls(kind) == {k \in DOMAIN trace : trace[k].call = kind}

\* C7: generate_filter_main ends in one of two ways, return 0 or return 1, and
\* when it returns 1 it has called none of GeneratorRegistry::create,
\* compile_standalone_runtime, compile_multitarget and Module::compile.
C7_TwoTerminalStates ==
    /\ Terminal => main_pc \in {"ret0", "ret1"}
    /\ main_pc = "ret1" => trace = <<>>

\* C8, as claimed: without -g and -r the registered generator is selected iff
\* exactly one is registered, and the run returns 1 when none or several are;
\* with -g that name is used however many generators are registered; with -r
\* and no -g no generator is selected or built.
C8_Original ==
    (Resolved /\ Parsed.ok) =>
        /\ (Flag(F_g) = S_empty /\ Flag(F_r) = S_empty) =>
              /\ Cardinality(Registered) = 1 => m.generator_name \in Registered
              /\ Cardinality(Registered) # 1 =>
                    (main_pc = "ret1" /\ m.generator_name = S_empty /\ trace = <<>>)
        /\ Flag(F_g) # S_empty => m.generator_name = Flag(F_g)
        /\ (Flag(F_r) # S_empty /\ Flag(F_g) = S_empty) =>
              (m.generator_name = S_empty /\ Calls("create") = {} /\ Calls("build_module") = {})

\* C8, amended: as claimed, except that with -g given, no generator registered
\* and no -r the run returns 1 before -g is looked at, so the name is not used.
C8_GeneratorResolution ==
    (Resolved /\ Parsed.ok) =>
        /\ (Flag(F_g) = S_empty /\ Flag(F_r) = S_empty) =>
              /\ Cardinality(Registered) = 1 => m.generator_name \in Registered
              /\ Cardinality(Registered) # 1 =>
                    (main_pc = "ret1" /\ m.generator_name = S_empty /\ trace = <<>>)
        /\ Flag(F_g) # S_empty =>
              IF Registered = {} /\ Flag(F_r) = S_empty
              THEN main_pc = "ret1" /\ m.generator_name = S_empty /\ trace = <<>>
              ELSE m.generator_name = Flag(F_g)
        /\ (Flag(F_r) # S_empty /\ Flag(F_g) = S_empty) =>
              (m.generator_name = S_empty /\ Calls("create") = {} /\ Calls("build_module") = {})

\* "-g a -o /d target=host" with nothing registered returned 1
C8_Witness ==
    /\ argv = <<F_g, S_a, F_o, S_dir, S_target \o S_eq \o S_host>>
    /\ Registered = {}
    /\ main_pc = "ret1"

\* C9: every call of the module producer for a target calls
\* GeneratorRegistry::create once, for the run's generator and with the CLI
\* key=value arguments except that "target" is that target's own string, and
\* builds the module from the instance just created; no instance is built
\* twice; the CLI argument map is never modified; a completed generator run
\* over N targets has created exactly N instances (one for a single target).
C9_FreshInstancePerTarget ==
    /\ (Parsed.ok /\ main_pc \notin {"none", "start"}) => m.generator_args = Parsed.generator_args
    /\ \A k \in Calls("create") :
          /\ trace[k].name = m.generator_name
          /\ \E i \in DOMAIN m.targets : trace[k].target = m.targets[i]
          /\ DOMAIN trace[k].args = DOMAIN Parsed.generator_args
          /\ \A key \in DOMAIN trace[k].args :
                trace[k].args[key] = IF key = S_target THEN Target_to_string(trace[k].target)
                                     ELSE Parsed.generator_args[key]
          /\ Find(trace[k].args[S_target], S_comma, 1) = 0
    /\ \A k \in Calls("build_module") :
          /\ k - 1 \in Calls("create")
          /\ trace[k].inst = trace[k - 1].inst
    /\ \A j, k \in Calls("create") : trace[j].inst = trace[k].inst => j = k
    /\ \A j, k \in Calls("build_module") : trace[j].inst = trace[k].inst => j = k
    /\ (main_pc = "ret0" /\ m.generator_name # S_empty) =>
          /\ Cardinality(Calls("create")) = Len(m.targets)
          /\ Cardinality(Calls("build_module")) = Len(m.targets)

\* "-g a -o /d target=host,x86-64-windows width=42" returned 0 after two
\* creates, one with target x86-64-linux and one with target x86-64-windows
C9_Witness ==
    /\ main_pc = "ret0"
    /\ Len(m.targets) = 2
    /\ S_width \in DOMAIN m.generator_args
    /\ Cardinality(Calls("create")) = 2
    /\ {trace[k].args[S_target] : k \in Calls("create")} = {S_linux_target, S_win_target}

\* s is name without its namespaces: the part after the last "::"
IsSimpleNameOf(s, name) ==
    \E i \in 1..(Len(name) + 1) :
        /\ s = SubSeq(name, i, Len(name))
        /\ Find(s, S_colons, 1) = 0
        /\ i = 1 \/ (i >= 3 /\ SubSeq(name, i - 2, i - 1) = S_colons)

IsPrefix(a, b) == Len(a) <= Len(b) /\ SubSeq(b, 1, Len(a)) = a

\* C10: a single-target run for a registered generator G with -o D returns 0
\* and hands Module::compile paths that all start with D/stem, where stem is
\* the -n value when given and else the function name (-f, by default G)
\* without its namespaces; with -e h,static_library and no -x exactly two paths
\* are populated, D/stem.h and D/stem.a (D/stem.lib for Windows without MinGW),
\* so D/G.h and D/G.a without -f and -n.
C10_SingleTargetOutputs ==
    (Terminal /\ Parsed.ok /\ Len(m.targets) = 1 /\ m.generator_name \in Registered
        /\ factories[m.generator_name] # "fnull" /\ main_pc # "ret1") =>
    /\ main_pc = "ret0"
    /\ trace # <<>>
    /\ LET last == trace[Len(trace)]
           outs == last.outputs
           fname == IF Flag(F_f) # S_empty THEN Flag(F_f) ELSE m.generator_name
           coff == m.targets[1].os = "Windows" /\ "MinGW" \notin m.targets[1].features
       IN /\ last.call = "Module::compile"
          /\ Calls("Module::compile") = {Len(trace)}
          /\ \E stem \in {SubSeq(fname, i, Len(fname)) : i \in 1..(Len(fname) + 1)} \cup {Flag(F_n)} :
                /\ IF Flag(F_n) # S_empty THEN stem = Flag(F_n) ELSE IsSimpleNameOf(stem, fname)
                /\ (Flag(F_n) = S_empty /\ Flag(F_f) = S_empty) => stem = m.generator_name
                /\ LET base == Flag(F_o) \o S_slash \o stem IN
                   /\ \A field \in DOMAIN outs :
                         outs[field] # S_empty => IsPrefix(base, outs[field])
                   /\ (Flag(F_e) = E_h \o S_comma \o E_static_library /\ Flag(F_x) = S_empty) =>
                         outs = [NoOutputs EXCEPT
                                    !.c_header_name = base \o X_h,
                                    !.static_library_name =
                                        base \o (IF coff THEN X_lib ELSE X_a)]

\* "-g a -f ns::f -o /d -e h,static_library target=x86-64-windows" returned 0
\* with /d/f.h and /d/f.lib
C10_Witness ==
    /\ main_pc = "ret0"
    /\ Flag(F_f) = S_ns_f /\ Flag(F_n) = S_empty /\ Flag(F_r) = S_empty
    /\ Flag(F_e) = E_h \o S_comma \o E_static_library
    /\ m.targets = <<[os |-> "Windows", arch |-> "X86", bits |-> 64, features |-> {}]>>
    /\ trace[Len(trace)].outputs.static_library_name = S_dir \o S_slash \o <<102>> \o X_lib
    /\ trace[Len(trace)].outputs.c_header_name = S_dir \o S_slash \o <<102>> \o X_h

-----------------------------------------------------------------------------
(* Claims about the free functions *)

\* the Outputs field of each emit kind
KindField == [emit_o |-> "object_name", emit_assembly |-> "assembly_name",
              emit_bitcode |-> "bitcode_name", emit_h |-> "c_header_name",
              emit_cpp |-> "c_source_name", emit_stmt |-> "stmt_name",
              emit_stmt_html |-> "stmt_html_name",
              emit_static_library |-> "static_library_name"]

IsCoff(target) == target.os = "Windows" /\ "MinGW" \notin target.features

\* the extension the claims name for a kind and a target
DefaultExtension(kind, target) ==
    CASE kind = "emit_o" -> IF target.arch = "PNaCl" THEN X_bc
                            ELSE IF IsCoff(target) THEN X_obj ELSE X_o
      [] kind = "emit_static_library" -> IF IsCoff(target) THEN X_lib ELSE X_a
      [] kind = "emit_assembly" -> X_s
      [] kind = "emit_bitcode" -> X_bc
      [] kind = "emit_h" -> X_h
      [] kind = "emit_cpp" -> X_cpp
      [] kind = "emit_stmt" -> X_stmt
      [] OTHER -> X_html

ComputeOutputsDone == fn_args.op = "compute_outputs" /\ fn_result.done

\* C11: compute_outputs populates a path iff its kind is requested; with an
\* empty override table the object path is base.bc for PNaCl whatever the OS,
\* else base.obj for Windows without MinGW and base.o otherwise, the static
\* library path is base.lib for Windows without MinGW and base.a otherwise, and
\* the other kinds get .s, .bc, .h, .cpp, .stmt, .html.
C11_DefaultExtensions ==
    ComputeOutputsDone =>
        LET t == fn_args.target
            o == fn_args.options
            out == fn_result.out
        IN /\ \A k \in EmitKinds : (out[KindField[k]] # S_empty) <=> o[k]
           /\ o.extensions = <<>> =>
                 \A k \in EmitKinds :
                    o[k] => out[KindField[k]] = fn_args.base_path \o DefaultExtension(k, t)
           /\ (o.extensions = <<>> /\ \A k \in EmitKinds : o[k]) =>
                 /\ (t.os = "Windows" /\ "MinGW" \notin t.features /\ t.arch # "PNaCl") =>
                       /\ out.object_name = fn_args.base_path \o X_obj
                       /\ out.static_library_name = fn_args.base_path \o X_lib
                 /\ ((t.os = "Linux" \/ "MinGW" \in t.features) /\ t.arch # "PNaCl") =>
                       /\ out.object_name = fn_args.base_path \o X_o
                       /\ out.static_library_name = fn_args.base_path \o X_a
                 /\ t.arch = "PNaCl" =>
                       /\ out.object_name = fn_args.base_path \o X_bc
                       /\ out.static_library_name =
                             fn_args.base_path \o (IF IsCoff(t) THEN X_lib ELSE X_a)

\* all kinds for a PNaCl target on Windows: the object is .bc, the library .lib
C11_Witness ==
    /\ ComputeOutputsDone
    /\ fn_args.target = [os |-> "Windows", arch |-> "PNaCl", bits |-> 64, features |-> {}]
    /\ fn_args.options.extensions = <<>>
    /\ \A k \in EmitKinds : fn_args.options[k]
    /\ fn_result.out.object_name = fn_args.base_path \o X_bc
    /\ fn_result.out.static_library_name = fn_args.base_path \o X_lib

\* C12: with an extension table, a requested kind whose default extension for
\* the target is a key old of the table gets base \o table[old]; every other
\* kind's path is the one computed with an empty table.
C12_OverrideChangesOnlyItsKinds ==
    ComputeOutputsDone =>
        LET t == fn_args.target
            o == fn_args.options
            out == fn_result.out
            plain == compute_outputs(t, fn_args.base_path, [o EXCEPT !.extensions = <<>>])
        IN \A k \in EmitKinds :
              IF o[k] /\ DefaultExtension(k, t) \in DOMAIN o.extensions
              THEN out[KindField[k]] = fn_args.base_path \o o.extensions[DefaultExtension(k, t)]
              ELSE out[KindField[k]] = plain[KindField[k]]

\* .o=.obj2 on a Linux target with o, h and static_library requested
C12_Witness ==
    /\ ComputeOutputsDone
    /\ fn_args.target.os = "Linux" /\ fn_args.target.arch = "X86"
    /\ fn_args.options.extensions = MapPut(<<>>, X_o, X_obj2)
    /\ fn_args.options.emit_o /\ fn_args.options.emit_h /\ fn_args.options.emit_static_library
    /\ fn_result.out.object_name = fn_args.base_path \o X_obj2
    /\ fn_result.out.c_header_name = fn_args.base_path \o X_h
    /\ fn_result.out.static_library_name = fn_args.base_path \o X_a

\* C21: the paths compute_outputs gives to two different requested kinds
\* differ, for every target (a PNaCl target with object and bitcode both
\* requested included) and every extension table.
C21_DistinctPaths ==
    ComputeOutputsDone =>
        \A k1, k2 \in EmitKinds :
            (k1 # k2 /\ fn_args.options[k1] /\ fn_args.options[k2]) =>
                fn_result.out[KindField[k1]] # fn_result.out[KindField[k2]]

\* the mutex is held by a thread exactly while that thread is between the
\* lock_guard's constructor and its destructor
MutexHeldInsideCallsOnly ==
    /\ \A t \in Threads : (mutex = t) <=> (pc[t] \in {"find", "act", "iter", "unlock"})
    /\ mutex \in Threads \cup {0}

\* C22: with threads that each make finitely many calls, factories that
\* return and do not call the registry, and a fair scheduler, every call of
\* register_factory, unregister_factory, create and enumerate comes to its end,
\* by return or by failure, with the mutex no longer held by its thread; the
\* mutex is held only inside a call, so a failed call (duplicate name, absent
\* name, unknown generator) leaves it free and the calls waiting for the mutex
\* go on.
C22_EveryCallEnds ==
    /\ []MutexHeldInsideCallsOnly
    /\ \A t \in Threads : (pc[t] # "idle") ~> (pc[t] = "idle" /\ mutex # t)

\* thread 1 is about to leave a failed unregister_factory or create (absent
\* name) through the lock_guard's destructor while thread 2 waits for the mutex
C22_Witness ==
    /\ pc[1] = "unlock" /\ mutex = 1
    /\ loc[1].res \in {"internal_error", "user_error"}
    /\ pc[2] = "lock"
    /\ calls_left[1] = 0

Letters == (65..90) \cup (97..122)
Digits == 48..57

\* C13: is_valid_name(s) is true iff s is non-empty, starts with an ASCII
\* letter, continues with ASCII letters, digits and underscores only, and has
\* no two underscores in a row.
C13_ValidNames ==
    (fn_args.op = "is_valid_name" /\ fn_result.done) =>
        LET s == fn_args.n IN
        fn_result.value <=>
            /\ Len(s) > 0
            /\ s[1] \in Letters
            /\ \A i \in 2..Len(s) : s[i] \in Letters \cup Digits \cup {95}
            /\ ~\E i \in 1..(Len(s) - 1) : s[i] = 95 /\ s[i + 1] = 95

\* "a__" was rejected
C13_Witness ==
    /\ fn_args.op = "is_valid_name" /\ fn_result.done
    /\ fn_args.n = <<97, 95, 95>>
    /\ ~fn_result.value

\* the token of each emit kind
KindToken == [emit_o |-> E_o, emit_assembly |-> E_assembly, emit_bitcode |-> E_bitcode,
              emit_h |-> E_h, emit_cpp |-> E_cpp, emit_stmt |-> E_stmt,
              emit_stmt_html |-> E_html, emit_static_library |-> E_static_library]

\* tok is one of the comma-separated tokens of list
Appears(tok, list) == Find(S_comma \o list \o S_comma, S_comma \o tok \o S_comma, 1) # 0

\* what other than -e makes a run return 1: the argument loop, the generator
\* resolution, -o or target missing, a malformed -x, several targets with -r
Ret1Reason ==
    \/ ~Parsed.ok
    \/ Registered = {} /\ Flag(F_r) = S_empty
    \/ Flag(F_g) = S_empty /\ Flag(F_r) = S_empty /\ Cardinality(Registered) > 1
    \/ Flag(F_o) = S_empty
    \/ S_target \notin DOMAIN Parsed.generator_args
    \/ \E x \in Range(split_string(Flag(F_x), S_comma)) :
          x # S_empty /\ Len(split_string(x, S_eq)) # 2
    \/ Flag(F_r) # S_empty /\ Find(Parsed.generator_args[S_target], S_comma, 1) # 0

\* C14: once the emit options are built, the kinds requested are h and
\* static_library when -e is omitted or empty, and otherwise exactly the kinds
\* whose token is in the -e list; the warnings are the other non-empty tokens;
\* a run returns 1 only for a reason that is not -e.
C14_EmitOptionsFromFlag ==
    /\ main_pc \in {"options", "runtime_done", "multitarget", "ret0", "user_error", "exit1"} =>
          /\ \A k \in EmitKinds :
                m.emit_options[k] <=>
                    IF Flag(F_e) = S_empty THEN k \in {"emit_h", "emit_static_library"}
                    ELSE Appears(KindToken[k], Flag(F_e))
          /\ \A tok \in Range(m.emit_options.warnings) :
                /\ tok # S_empty
                /\ Appears(tok, Flag(F_e))
                /\ \A k \in EmitKinds : tok # KindToken[k]
          /\ Appears(E_bogus, Flag(F_e)) => E_bogus \in Range(m.emit_options.warnings)
    /\ main_pc = "ret1" => Ret1Reason

\* "-e html,stmt,,bogus" returned 0 with html and stmt requested and one warning
C14_Witness ==
    /\ main_pc = "ret0"
    /\ Flag(F_e) = E_html \o S_comma \o E_stmt \o S_comma \o S_comma \o E_bogus
    /\ m.emit_options.warnings = <<E_bogus>>
    /\ {k \in EmitKinds : m.emit_options[k]} = {"emit_stmt", "emit_stmt_html"}

-----------------------------------------------------------------------------
(* Specifications *)

RegIdle ==
    /\ factories = <<>>
    /\ reg_last = RegLast("none", S_empty, NoFactory, "none", NoInst, <<>>, {})
    /\ dupSeen = [n \in NamePool |-> NoDup]
    /\ names_abs = {}

ConcIdle ==
    /\ mutex = 0
    /\ pc = [t \in Threads |-> "idle"]
    /\ call = [t \in Threads |-> NoCall]
    /\ loc = [t \in Threads |-> NoLoc]
    /\ seenSets = [t \in Threads |-> {}]
    /\ lin = <<>>
    /\ calls_left = [t \in Threads |-> 0]

NoG == [objs |-> [params |-> <<>>, inputs |-> <<>>, gparams |-> <<>>],
        fp |-> <<>>, fi |-> <<>>, gp |-> <<>>, built |-> FALSE]

NoGenLast == [op |-> "none", res |-> Ok, scanned |-> FALSE, args |-> <<>>, values |-> <<>>,
              module |-> NoModule, given |-> <<>>, pre |-> NoG]

GenIdle ==
    /\ objs = NoG.objs
    /\ filter_params = <<>>
    /\ filter_inputs = <<>>
    /\ generator_params = <<>>
    /\ params_built = FALSE
    /\ gen_last = NoGenLast
    /\ everReturned = FALSE
    /\ cycle_start = [i \in DOMAIN objs.inputs |-> 0]

MainIdle ==
    /\ argv = <<>>
    /\ main_pc = "none"
    /\ m = M0
    /\ trace = <<>>

\* no free function is being called
NoArgs == [op |-> "none"]
NoResult == [done |-> FALSE]

FnIdle ==
    /\ fn_args = NoArgs
    /\ fn_result = NoResult

\* the registry, one call at a time, starting empty (get_registry, lines 317-320)
Init == RegIdle /\ ConcIdle /\ GenIdle /\ MainIdle /\ FnIdle

Next ==
    \/ \E n \in NamePool, f \in FactoryPool : register_factory(n, f)
    \/ \E n \in NamePool : unregister_factory(n)
    \/ \E n \in NamePool, c \in ConfigPool : create(n, c)
    \/ enumerate

Spec == Init /\ [][Next]_vars

\* the registry called from NumThreads threads
NextConc ==
    \E t \in Threads :
        \/ \E n \in ConcNames, f \in FactoryPool : c_call(t, "register_factory", n, f)
        \/ \E n \in ConcNames : c_call(t, "unregister_factory", n, NoFactory)
        \/ \E n \in ConcNames : c_call(t, "create", n, NoFactory)
        \/ c_call(t, "enumerate", S_empty, NoFactory)
        \/ c_lock(t)
        \/ c_find(t)
        \/ c_act(t)
        \/ c_iter(t)
        \/ c_unlock(t)
        \/ c_raise(t)

SpecConc == Init /\ [][NextConc]_vars

\* a generator instance as its constructor leaves it (line 363): some declared
\* objects, nothing discovered yet
InitGen ==
    /\ RegIdle /\ ConcIdle
    /\ MainIdle /\ FnIdle
    /\ objs \in DeclPool
    /\ filter_params = <<>>
    /\ filter_inputs = <<>>
    /\ generator_params = <<>>
    /\ params_built = FALSE
    /\ gen_last = NoGenLast
    /\ everReturned = FALSE
    /\ cycle_start = [i \in DOMAIN objs.inputs |-> 0]

NextGen ==
    \/ build_params
    \/ rebuild_params
    \/ get_filter_arguments
    \/ get_generator_param_values
    \/ \E v \in ValuesPool : set_generator_param_values(v)
    \/ \E np \in [1..Len(objs.params) -> ParamPool] : build_module(np)

SpecGen == InitGen /\ [][NextGen]_vars

\* the command lines of the model: every flag present or absent, then the
\* key=value arguments
Opt(flag, values) == {<<>>} \cup {<<flag, v>> : v \in values}

RECURSIVE Join(_, _)
Join(strs, sep) ==
    IF Len(strs) = 0 THEN S_empty
    ELSE IF Len(strs) = 1 THEN strs[1]
    ELSE strs[1] \o sep \o Join(Tail(strs), sep)

TargetStrings == {S_host, S_win_target, S_mingw_target}

TargetArgs ==
    {<<>>} \cup
    {<<S_target \o S_eq \o Join(ts, S_comma)>> :
        ts \in UNION {[1..k -> TargetStrings] : k \in 1..MaxTargets}}

EmitArgs == {<<>>,
             <<F_e, S_empty>>,
             <<F_e, E_h \o S_comma \o E_static_library>>,
             <<F_e, E_o \o S_comma \o E_bogus, F_x, X_o \o S_eq \o X_obj2>>,
             <<F_e, E_assembly \o S_comma \o E_bitcode \o S_comma \o E_cpp>>,
             <<F_e, E_html \o S_comma \o E_stmt \o S_comma \o S_comma \o E_bogus>>,
             <<F_x, S_junk>>}

GoodArgv ==
    {g \o f \o o \o r \o e \o n \o t \o w :
        g \in Opt(F_g, {S_a, S_zz}), f \in Opt(F_f, {S_ns_f}), o \in Opt(F_o, {S_dir}),
        r \in Opt(F_r, {S_rt}), e \in EmitArgs, n \in Opt(F_n, {S_nm}), t \in TargetArgs,
        w \in {<<>>, <<S_width \o S_eq \o S_42>>}}

\* a complete command line followed by a malformed argument, an unknown flag,
\* or a flag without its value
BadArgv ==
    {<<F_g, S_a, F_o, S_dir, S_target \o S_eq \o S_host>> \o bad :
        bad \in {<<S_junk>>, <<S_eq \o S_42>>, <<S_width \o S_eq>>, <<F_z>>, <<F_n>>}}

ArgvPool == GoodArgv \cup BadArgv

\* the generators registered when main starts
RegistryPool == {<<>>,
                 MapPut(<<>>, S_a, "f1"),
                 MapPut(MapPut(<<>>, S_a, "f1"), S_b, "f2"),
                 MapPut(<<>>, S_a, "fnull")}

InitMain ==
    /\ ConcIdle /\ GenIdle /\ FnIdle
    /\ factories \in RegistryPool
    /\ reg_last = RegLast("none", S_empty, NoFactory, "none", NoInst, <<>>, {})
    /\ dupSeen = [n \in NamePool |-> NoDup]
    /\ names_abs = DOMAIN factories
    /\ argv \in ArgvPool
    /\ main_pc = "start"
    /\ m = M0
    /\ trace = <<>>

NextMain ==
    \/ main_parse
    \/ main_resolve
    \/ main_options
    \/ main_runtime
    \/ main_generator
    \/ \E i \in 1..MaxTargets : producer_call(i)
    \/ multitarget_done

SpecMain == InitMain /\ [][NextMain]_vars

\* is_valid_name called on one string
InitName ==
    /\ RegIdle /\ ConcIdle /\ GenIdle /\ MainIdle
    /\ fn_args \in [op : {"is_valid_name"}, n : NameStrings]
    /\ fn_result = NoResult

SpecName == InitName /\ [][is_valid_name_call]_vars

\* compute_outputs called on one target, base path and EmitOptions
InitOutputs ==
    /\ RegIdle /\ ConcIdle /\ GenIdle /\ MainIdle
    /\ fn_args \in [op : {"compute_outputs"}, target : TargetPool,
                    base_path : {S_dir \o S_slash \o S_nm}, options : EmitOptionsPool]
    /\ fn_result = NoResult

SpecOutputs == InitOutputs /\ [][compute_outputs_call]_vars


\* the registry called from NumThreads threads, with a factory registered
\* under "a" whose create() calls the registry
InitReent ==
    /\ factories = MapPut(<<>>, S_a, ReentrantFactory)
    /\ reg_last = RegLast("none", S_empty, NoFactory, "none", NoInst, <<>>, {})
    /\ dupSeen = [n \in NamePool |-> NoDup]
    /\ names_abs = {S_a}
    /\ mutex = 0
    /\ pc = [t \in Threads |-> "idle"]
    /\ call = [t \in Threads |-> NoCall]
    /\ loc = [t \in Threads |-> NoLoc]
    /\ seenSets = [t \in Threads |-> {}]
    /\ lin = factories
    /\ calls_left = [t \in Threads |-> 0]
    /\ GenIdle /\ MainIdle /\ FnIdle

NextReent ==
    \E t \in Threads :
        \/ \E n \in ConcNames, f \in FactoryPool : c_call(t, "register_factory", n, f)
        \/ \E n \in ConcNames : c_call(t, "unregister_factory", n, NoFactory)
        \/ \E n \in ConcNames : c_call(t, "create", n, NoFactory)
        \/ c_call(t, "enumerate", S_empty, NoFactory)
        \/ c_lock(t)
        \/ c_find(t)
        \/ c_act(t)
        \/ c_relock(t)
        \/ c_relock_failed(t)
        \/ c_iter(t)
        \/ c_unlock(t)
        \/ c_raise(t)

SpecReent == InitReent /\ [][NextReent]_vars

\* the registry called from NumThreads threads, each running a program of at
\* most MaxCalls calls, under a scheduler that lets every thread that can take
\* a step take one in the end.  A thread waiting in the lock_guard's
\* constructor can take its step only while the mutex is free: std::mutex
\* promises no order among the waiting threads.
InitFinite ==
    /\ RegIdle /\ GenIdle /\ MainIdle /\ FnIdle
    /\ mutex = 0
    /\ pc = [t \in Threads |-> "idle"]
    /\ call = [t \in Threads |-> NoCall]
    /\ loc = [t \in Threads |-> NoLoc]
    /\ seenSets = [t \in Threads |-> {}]
    /\ lin = <<>>
    /\ calls_left = [t \in Threads |-> MaxCalls]

\* the steps of thread t inside a call
c_run(t) ==
    \/ c_lock(t)
    \/ c_find(t)
    \/ c_act(t)
    \/ c_iter(t)
    \/ c_unlock(t)
    \/ c_raise(t)

\* the names and the factory the finite programs use: one valid name, so that
\* calls meet on it, and one name register_factory refuses
FiniteNames == {S_a, S_9a}
FiniteFactories == {"f1"}

NextFinite ==
    \E t \in Threads :
        \/ \E n \in FiniteNames, f \in FiniteFactories : c_call_finite(t, "register_factory", n, f)
        \/ \E n \in FiniteNames : c_call_finite(t, "unregister_factory", n, NoFactory)
        \/ \E n \in FiniteNames : c_call_finite(t, "create", n, NoFactory)
        \/ c_call_finite(t, "enumerate", S_empty, NoFactory)
        \/ c_lock(t)
        \/ c_find(t)
        \/ c_act(t)
        \/ c_iter(t)
        \/ c_unlock(t)
        \/ c_raise(t)

SpecFinite ==
    /\ InitFinite
    /\ [][NextFinite]_vars
    /\ \A t \in Threads : WF_vars(c_run(t))

=============================================================================
